---- MODULE Spec2Model ----
(***************************************************************************)
(* A model of the DQN learning pipeline of FlapPyBird:                     *)
(*   rl/replay_buffer.py  ReplayBuffer (ring store, uniform sampling)      *)
(*   rl/dqn_agent.py      DQNAgent (epsilon schedule, Bellman target,      *)
(*                        target synchronisation, save / load)             *)
(*   rl/train.py          train (the training loop)                        *)
(*   server/ai_server.py  the viewer server (users, pipe ownership)        *)
(*                                                                         *)
(* Specifications:                                                         *)
(*   SpecBuf    a ReplayBuffer driven by arbitrary push / sample calls     *)
(*   SpecEps    the epsilon schedule, stepped by epsilon_greedy            *)
(*   SpecAgent  a DQNAgent driven by epsilon_greedy and optimize calls     *)
(*   SpecCkpt   a DQNAgent with save, load and resume on a checkpoint      *)
(*              directory                                                  *)
(*   SpecTrain  the training loop of train()                               *)
(*   SpecResume train() run again on the directory it wrote, resuming      *)
(*   SpecStop   train() under the stopping arguments                       *)
(*   SpecStopFair  the same, under weak fairness of the loop               *)
(*   SpecFail   train() with a quit event or a failing checkpoint write    *)
(*   SpecView   the trainer rewriting best.pt while the server reloads it  *)
(*   SpecRng    two runs with the same buffer seed, compared               *)
(*   SpecOpt    optimize with the gradient made visible                    *)
(*   SpecServer the viewer server: game loop and websocket messages        *)
(***************************************************************************)
EXTENDS Integers, Sequences, FiniteSets, TLC

VARIABLES
    buf,      \* the ReplayBuffer object (record of its fields)
    agent,    \* the DQNAgent object (record of its fields)
    files,    \* the checkpoint directory: path -> stored dict
    tr,       \* the locals of train(): step, s, a, done, episode, ...
    op,       \* history: the operation that produced this state
    ret,      \* history: what that operation returned (or raised)
    pushed    \* history: every transition handed to push, in call order

vars == <<buf, agent, files, tr, op, ret, pushed>>

(***************************************************************************)
(* Bounds of the model.                                                    *)
(***************************************************************************)
MaxCapacity == 3     \* ReplayBuffer capacities 1..MaxCapacity
MaxPush     == 5     \* push calls per behaviour (SpecBuf)
MaxBatch    == 2     \* batch sizes 1..MaxBatch
MantBits    == 3     \* significand bits of the modelled Python floats
FracBits    == 4     \* 1.0 is 2^FracBits units of the smallest spacing
MaxWeight   == 2     \* weight settings 0..MaxWeight of a network
MaxSteps    == 5     \* epsilon_greedy calls per behaviour (SpecEps)
MaxAgentSteps == 4   \* epsilon_greedy calls per behaviour (SpecAgent)
MaxOpt      == 2     \* optimize calls per behaviour (SpecAgent)
MaxCkptSteps == 4    \* steps above which SpecCkpt calls epsilon_greedy no more
MaxCkptOpt  == 1     \* optimizer steps above which SpecCkpt optimizes no more
MaxSync     == 2     \* target_update_every in 1..MaxSync
MaxDecay    == 4     \* eps_decay_steps in 1..MaxDecay (SpecEps)
MaxWarmup   == 2     \* warmup_steps in 0..MaxWarmup
MaxOptEvery == 2     \* optimize_every in 1..MaxOptEvery
MaxTrainSteps == 4   \* train_steps
MaxRunSteps == 2     \* train_steps of each run of SpecResume
MaxRuns     == 2     \* runs of train() on one directory (SpecResume)
MaxStopSteps == 3    \* the non-zero train_steps of SpecStop
MaxEpisodes == 2     \* max_episodes in 0..MaxEpisodes (SpecStop)
MaxViewSteps == 4    \* agent.steps above which the trainer of SpecView rests
MaxViewWrites == 3   \* best checkpoints written per behaviour (SpecView)
MaxOptSteps == 2     \* epsilon_greedy calls per behaviour (SpecOpt)
RngMod      == 5     \* states of a modelled random generator
MaxRngCapacity == 2  \* ReplayBuffer capacities 1..MaxRngCapacity (SpecRng)
MaxRngPush  == 3     \* push calls per behaviour (SpecRng)
MaxServerUsers == 3  \* users created per behaviour (SpecServer)
MaxServerFrames == 8 \* env.step calls per behaviour (SpecServer)
MaxServerGames == 2  \* game overs per behaviour (SpecServer)
MaxServerInputs == 1 \* input messages per behaviour (SpecServer)
NumColors   == 2     \* len(PLAYER_COLORS) (5 colours)
PipeVel     == 1     \* what a pipe moves per tick (5 px), the unit of length
PipeW       == 1     \* width of a pipe (52 px)
WindowWidth == 1     \* width of the window (288 px)
PipeMargin  == 1     \* a new pipe starts this far right of the window (10 px)
WideSpacing == 2     \* spacing of the wide-view pipes (180 px)
VisibleRight == 4    \* right edge of the browser canvas (864 px)
TargetReset == 10    \* the wide view is filled up to here on reset (2000 px)
TargetStep  == 11    \* and up to here after a step (2100 px)
WideSpawnX  == 7     \* the spawn rule of the wide view (1300 px)
WideRemoveMargin == 1 \* extra margin of the wide-view removal (200 px)

\* the window of the moving average of the scores
MaWindow == 50

(***************************************************************************)
(* Floating point.  Python floats (binary64) and numpy / torch float32     *)
(* are binary floating-point numbers: every arithmetic result and every    *)
(* conversion is rounded to the nearest representable value, ties to       *)
(* even.  The model keeps that rounding at a reduced precision: a value    *)
(* is an integer number of units (one unit = 2^-FracBits) whose            *)
(* significand has at most MantBits bits (Python float) or one bit less    *)
(* (float32, the narrower of the two formats).                             *)
(***************************************************************************)
RECURSIVE Pow2(_)
Pow2(n) == IF n = 0 THEN 1 ELSE 2 * Pow2(n - 1)

Abs(x) == IF x < 0 THEN -x ELSE x

Sign(x) == IF x < 0 THEN -1 ELSE 1

\* 1.0 in units
One == Pow2(FracBits)

\* significand bits of float32 in the model
Mant32Bits == MantBits - 1

\* the spacing of the bits-bit values around the rational num/den
RECURSIVE SpacingFrom(_, _, _, _)
SpacingFrom(bits, num, den, u) ==
    IF Abs(num) < Pow2(bits) * u * den THEN u
    ELSE SpacingFrom(bits, num, den, 2 * u)

\* round-to-nearest, ties-to-even, of the rational num/den (den > 0)
RoundNearest(bits, num, den) ==
    LET u   == SpacingFrom(bits, num, den, 1)
        n   == Abs(num)
        q   == n \div (den * u)
        rem == n - q * den * u
        up  == \/ 2 * rem > den * u
               \/ (2 * rem = den * u /\ q % 2 = 1)
    IN  Sign(num) * (IF up THEN q + 1 ELSE q) * u

\* the rounding of an operation, applied to the value of its operands
RoundTo(bits, num, den) ==
    CHOOSE r \in {RoundNearest(bits, n, d) : n \in {num}, d \in {den}} : TRUE

\* Python float arithmetic
RN(num, den) == RoundTo(MantBits, num, den)
IsFloat(x) == RN(x, 1) = x
Ulp(x) == SpacingFrom(MantBits, x, 1, 1)
FAdd(x, y) == RN(x + y, 1)
FSub(x, y) == RN(x - y, 1)
FMul(x, y) == RN(x * y, One)
FDiv(x, y) == RN(Sign(y) * x * One, Abs(y))
FMin(x, y) == IF x <= y THEN x ELSE y

\* float(n) of a Python int
IntToFloat(n) == RN(n * One, 1)

\* the Python floats in lo..hi
Floats(lo, hi) == {x \in lo..hi : IsFloat(x)}

\* float32 conversion and arithmetic (numpy arrays of the buffer, torch tensors)
F32(x) == RoundTo(Mant32Bits, x, 1)
IsF32(x) == F32(x) = x
F32Add(x, y) == RoundTo(Mant32Bits, x + y, 1)
F32Sub(x, y) == RoundTo(Mant32Bits, x - y, 1)
F32Mul(x, y) == RoundTo(Mant32Bits, x * y, One)

(***************************************************************************)
(* ReplayBuffer (rl/replay_buffer.py).  The five numpy arrays are          *)
(* functions on 0..capacity-1.  An observation vector is an opaque label   *)
(* (a natural number); the zero vector of np.zeros is the label 0.         *)
(***************************************************************************)
Actions == {0, 1}

Transition(s, a, r, s2, d) ==
    [state |-> s, action |-> a, reward |-> r, next_state |-> s2, done |-> d]

\* ReplayBuffer.__init__
BufInit(capacity) ==
    [capacity   |-> capacity,
     state      |-> [i \in 0..capacity - 1 |-> 0],
     action     |-> [i \in 0..capacity - 1 |-> 0],
     reward     |-> [i \in 0..capacity - 1 |-> 0],
     next_state |-> [i \in 0..capacity - 1 |-> 0],
     done       |-> [i \in 0..capacity - 1 |-> 0],
     pos        |-> 0,
     full       |-> FALSE]

\* ReplayBuffer.__len__
BufLen(b) == IF b.full THEN b.capacity ELSE b.pos

\* the cursor after a write at pos
NextPosWrapsLate(b) == IF b.pos + 1 > b.capacity THEN 0 ELSE b.pos + 1
NextPos(b) == (b.pos + 1) % b.capacity

\* the slot push writes
PushSlotRestarts(b) == IF b.full THEN 0 ELSE b.pos
PushSlot(b) == b.pos

\* ReplayBuffer.push: reward is stored as float32, done as float(done)
BufPush(b, t) ==
    LET idx == PushSlot(b)
        np  == NextPos(b)
    IN  [b EXCEPT !.state[idx]      = t.state,
                  !.action[idx]     = t.action,
                  !.reward[idx]     = F32(t.reward),
                  !.next_state[idx] = t.next_state,
                  !.done[idx]       = IF t.done THEN One ELSE 0,
                  !.pos             = np,
                  !.full            = b.full \/ np = 0]

\* the assertion of ReplayBuffer.sample
SampleUnchecked(b, batch_size) == TRUE
SampleAllowed(b, batch_size) == BufLen(b) >= batch_size

\* the index range rng.integers(0, size) draws from
SampleRangeWholeArray(b) == 0..b.capacity - 1
SampleRange(b) == 0..BufLen(b) - 1

\* the dict sample returns for the drawn indices idxs (a sequence)
BufGather(b, idxs) ==
    [state      |-> [i \in DOMAIN idxs |-> b.state[idxs[i]]],
     action     |-> [i \in DOMAIN idxs |-> b.action[idxs[i]]],
     reward     |-> [i \in DOMAIN idxs |-> b.reward[idxs[i]]],
     next_state |-> [i \in DOMAIN idxs |-> b.next_state[idxs[i]]],
     done       |-> [i \in DOMAIN idxs |-> b.done[idxs[i]]]]

(***************************************************************************)
(* QNetwork (rl/q_network.py).  The network is an opaque function from an  *)
(* observation to one value per action, fixed by its weights.  A weight    *)
(* setting is a number 0..MaxWeight; QVal is the float32 value the         *)
(* network with weights w gives action a in observation s.  The family     *)
(* has settings that differ in the maximum and in the greedy action.       *)
(***************************************************************************)
Weights == 0..MaxWeight

\* QNetwork.forward
QVal(w, s, a) == One * ((w * (a + 1) + s * a) % 3)

\* torch.max over the action dimension
MaxQ(w, s) == IF QVal(w, s, 1) > QVal(w, s, 0) THEN QVal(w, s, 1) ELSE QVal(w, s, 0)

\* torch.argmax over the action dimension: the first index of the maximum
ArgMaxQ(w, s) == IF QVal(w, s, 1) > QVal(w, s, 0) THEN 1 ELSE 0

(***************************************************************************)
(* DQNAgent (rl/dqn_agent.py).  cfg is the DQNConfig; q and target are     *)
(* the weights of the two networks; opt is the state of the Adam           *)
(* optimizer, of which the model keeps the number of steps taken.          *)
(***************************************************************************)
\* DQNAgent.__init__ with the freshly initialised online weights w
AgentInit(cfg, w) ==
    [cfg |-> cfg, q |-> w, target |-> w, opt |-> 0, steps |-> 0,
     eps |-> cfg.eps_start]

\* the fraction of the decay period completed
EpsFracUnclamped(cfg, steps) ==
    FDiv(IntToFloat(steps), IntToFloat(cfg.eps_decay_steps))
EpsFrac(cfg, steps) ==
    FMin(One, FDiv(IntToFloat(steps), IntToFloat(cfg.eps_decay_steps)))

\* DQNAgent._update_epsilon: the value assigned to eps
Epsilon(cfg, steps) ==
    FAdd(cfg.eps_start, FMul(EpsFrac(cfg, steps), FSub(cfg.eps_end, cfg.eps_start)))

\* DQNAgent.epsilon_greedy: the agent after the call
SteppedKeepsEps(a) == [a EXCEPT !.steps = a.steps + 1]
Stepped(a) ==
    [a EXCEPT !.steps = a.steps + 1, !.eps = Epsilon(a.cfg, a.steps + 1)]

\* DQNAgent.epsilon_greedy: the action returned, u being the draw of
\* np.random.random() and r the draw of np.random.randint
GreedyAction(a, s, u, r) == IF u < a.eps THEN r ELSE ArgMaxQ(a.q, s)

\* DQNAgent.optimize: q_next of one row
QNextOnline(a, next_state) == MaxQ(a.q, next_state)
QNext(a, next_state) == MaxQ(a.target, next_state)

\* DQNAgent.optimize: the Bellman target of one row; gamma, a Python
\* float, enters the float32 tensor arithmetic as a float32
BellmanTarget(a, reward, next_state, done) ==
    F32Add(reward,
           F32Mul(F32Mul(F32Sub(One, done), F32(a.cfg.gamma)),
                  QNext(a, next_state)))

\* DQNAgent.optimize: the targets of a batch
BatchTargets(a, batch) ==
    [i \in DOMAIN batch.reward |->
        BellmanTarget(a, batch.reward[i], batch.next_state[i], batch.done[i])]

\* DQNAgent.optimize: whether this call copies the online weights
SyncDue(a) == a.steps % a.cfg.target_update_every = 0

\* DQNAgent.optimize: the target weights after the call, nq being the
\* online weights after opt.step()
TargetTracksOnline(a, nq) == nq
TargetAfter(a, nq) == IF SyncDue(a) THEN nq ELSE a.target

\* DQNAgent.optimize: the agent after the call
OptimizedCountsStep(a, nq) ==
    [a EXCEPT !.q = nq, !.opt = a.opt + 1, !.target = TargetAfter(a, nq),
              !.steps = a.steps + 1]
Optimized(a, nq) ==
    [a EXCEPT !.q = nq, !.opt = a.opt + 1, !.target = TargetAfter(a, nq)]

\* DQNAgent.save: the dict handed to torch.save
SaveDataFreshEps(a, extra) ==
    LET data == [q |-> a.q, target |-> a.target, opt |-> a.opt,
                 steps |-> a.steps, eps |-> a.cfg.eps_start, cfg |-> a.cfg]
    IN  [k \in DOMAIN data \cup DOMAIN extra |->
            IF k \in DOMAIN extra THEN extra[k] ELSE data[k]]
SaveData(a, extra) ==
    LET data == [q |-> a.q, target |-> a.target, opt |-> a.opt,
                 steps |-> a.steps, eps |-> a.eps, cfg |-> a.cfg]
    IN  [k \in DOMAIN data \cup DOMAIN extra |->
            IF k \in DOMAIN extra THEN extra[k] ELSE data[k]]

\* dict.get
Get(d, k, default) == IF k \in DOMAIN d THEN d[k] ELSE default

\* DQNAgent.load: the agent after loading the dict ckpt, the three
\* mandatory parts being present
LoadedAllOrNothing(a, ckpt) ==
    [a EXCEPT !.q = ckpt.q, !.target = ckpt.target, !.opt = ckpt.opt,
              !.steps = IF {"steps", "eps"} \subseteq DOMAIN ckpt
                        THEN ckpt.steps ELSE 0,
              !.eps = IF {"steps", "eps"} \subseteq DOMAIN ckpt
                      THEN ckpt.eps ELSE a.cfg.eps_start]
Loaded(a, ckpt) ==
    [a EXCEPT !.q = ckpt.q, !.target = ckpt.target, !.opt = ckpt.opt,
              !.steps = Get(ckpt, "steps", 0),
              !.eps = Get(ckpt, "eps", a.cfg.eps_start)]

\* train: the schedule reset of a resume with --reset-eps
ResetStepsOnly(a) == [a EXCEPT !.steps = 0]
ResetSchedule(a) == [a EXCEPT !.steps = 0, !.eps = a.cfg.eps_start]

(***************************************************************************)
(* Values of the variables a specification does not use.                   *)
(***************************************************************************)
NoBuf   == [capacity |-> 0]
NoAgent == [steps |-> 0]
NoFiles == [p \in {} |-> 0]
NoTrain == [pc |-> "none"]
NoRet   == [kind |-> "none"]

(***************************************************************************)
(* SpecBuf: one ReplayBuffer, any sequence of push and sample calls.       *)
(* The n-th push (n = 0, 1, ...) carries the observation labels n+1 and    *)
(* n+2, so that the transitions are told apart; action and done are the    *)
(* caller's choice, the reward is -1.0 with done (as the environment       *)
(* gives it) and otherwise a Python float that float32 rounds.             *)
(***************************************************************************)
BufReward(d) == IF d THEN -One ELSE Pow2(MantBits - 1) + 1

InitBuf ==
    /\ \E c \in 1..MaxCapacity : buf = BufInit(c)
    /\ agent = NoAgent
    /\ files = NoFiles
    /\ tr = NoTrain
    /\ op = "init"
    /\ ret = NoRet
    /\ pushed = <<>>

\* buf.push(state, action, reward, next_state, done)
Push ==
    /\ Len(pushed) < MaxPush
    /\ \E a \in Actions, d \in BOOLEAN :
          LET t == Transition(Len(pushed) + 1, a, BufReward(d),
                              Len(pushed) + 2, d)
          IN  /\ buf' = BufPush(buf, t)
              /\ pushed' = Append(pushed, t)
    /\ op' = "push"
    /\ ret' = NoRet
    /\ UNCHANGED <<agent, files, tr>>

\* buf.sample(batch_size)
Sample ==
    /\ \E bs \in 1..MaxBatch :
          \/ /\ SampleAllowed(buf, bs)
             /\ \E idxs \in [1..bs -> SampleRange(buf)] :
                   ret' = [kind |-> "batch", batch_size |-> bs,
                           batch |-> BufGather(buf, idxs)]
          \/ /\ ~SampleAllowed(buf, bs)
             /\ ret' = [kind |-> "AssertionError", batch_size |-> bs]
    /\ op' = "sample"
    /\ UNCHANGED <<buf, pushed, agent, files, tr>>

NextBuf == Push \/ Sample

SpecBuf == InitBuf /\ [][NextBuf]_vars

(***************************************************************************)
(* Inputs of the agent specifications.                                     *)
(***************************************************************************)
Obs == 1..2

DQNConfig(gamma, target_update_every, eps_start, eps_end, eps_decay_steps) ==
    [gamma |-> gamma, target_update_every |-> target_update_every,
     eps_start |-> eps_start, eps_end |-> eps_end,
     eps_decay_steps |-> eps_decay_steps]

\* two schedules: 1.0 -> 1/16 over 2 steps with gamma 0.5, and
\* 0.5 -> 0.25 over 3 steps with a gamma that float32 rounds
Schedules == {<<One \div 2, One, 1, 2>>, <<One - 2, One \div 2, One \div 4, 3>>}

AgentCfgs ==
    {DQNConfig(c[1], T, c[2], c[3], c[4]) : c \in Schedules, T \in 1..MaxSync}

\* every schedule with 0 <= eps_end < eps_start <= 1
EpsCfgs ==
    {DQNConfig(One \div 2, 1, s, e, d) :
        s \in Floats(0, One), e \in Floats(0, One), d \in 1..MaxDecay}

\* the draws of np.random.random(): Python floats in [0, 1)
Draws == {0, One \div 4, One - 1}

\* the rows of the batches handed to optimize: float32 rewards, done as
\* 0.0 / 1.0, the observation labels of a step from state to next_state
Rows ==
    {[state |-> 3 - s2, action |-> s2 - 1,
      reward |-> IF s2 = 1 THEN -One ELSE 3, next_state |-> s2, done |-> d] :
        s2 \in Obs, d \in {0, One}}

Columns(rows) ==
    [f \in {"state", "action", "reward", "next_state", "done"} |->
        [i \in DOMAIN rows |-> rows[i][f]]]

Batches == {Columns(rows) : rows \in UNION {[1..n -> Rows] : n \in 1..MaxBatch}}

\* the checkpoint of another run, and its older formats
OldCkpt ==
    [q |-> 1, target |-> 2, opt |-> 1, steps |-> 3, eps |-> 6,
     cfg |-> DQNConfig(One, 1, One, One \div 2, 4)]

Restrict(d, keys) == [k \in keys |-> d[k]]

OldCkpts ==
    {Restrict(OldCkpt, {"q", "target", "opt", "cfg"} \cup opt_keys) :
        opt_keys \in SUBSET {"steps", "eps"}}

(***************************************************************************)
(* The calls of a DQNAgent.                                                *)
(***************************************************************************)
\* agent.epsilon_greedy(state)
EpsilonGreedy ==
    /\ agent' = Stepped(agent)
    /\ \E s \in Obs, u \in Draws, r \in Actions :
          ret' = [kind |-> "action", state |-> s, draw |-> u,
                  action |-> GreedyAction(agent', s, u, r)]
    /\ op' = "epsilon_greedy"
    /\ UNCHANGED <<buf, files, tr, pushed>>

\* agent.optimize(batch); nq is the online weights after opt.step()
Optimize ==
    /\ \E batch \in Batches, nq \in Weights :
          /\ agent' = Optimized(agent, nq)
          /\ ret' = [kind |-> "loss", batch |-> batch,
                     target |-> BatchTargets(agent, batch),
                     synced |-> SyncDue(agent)]
    /\ op' = "optimize"
    /\ UNCHANGED <<buf, files, tr, pushed>>

\* agent.save("ckpt.pt", extra)
Save ==
    /\ \E extra \in {[k \in {} |-> 0], [step |-> agent.steps]} :
          files' = ("ckpt.pt" :> SaveData(agent, extra)) @@ files
    /\ op' = "save"
    /\ ret' = NoRet
    /\ UNCHANGED <<buf, agent, tr, pushed>>

\* agent.load(path) of an existing file
Load ==
    /\ \E path \in DOMAIN files :
          /\ agent' = Loaded(agent, files[path])
          /\ ret' = [kind |-> "loaded", path |-> path]
    /\ op' = "load"
    /\ UNCHANGED <<buf, files, tr, pushed>>

\* the resume of train(): agent.load(args.resume), then the schedule
\* reset when args.reset_eps is set
Resume ==
    /\ \E path \in DOMAIN files, reset_eps \in BOOLEAN :
          /\ agent' = IF reset_eps
                         THEN ResetSchedule(Loaded(agent, files[path]))
                         ELSE Loaded(agent, files[path])
          /\ ret' = [kind |-> "resumed", path |-> path, reset_eps |-> reset_eps]
    /\ op' = "resume"
    /\ UNCHANGED <<buf, files, tr, pushed>>

(***************************************************************************)
(* SpecEps: the epsilon schedule, over every schedule with                 *)
(* eps_end < eps_start, stepped by epsilon_greedy calls.                   *)
(***************************************************************************)
InitEps ==
    /\ \E cfg \in EpsCfgs :
          /\ cfg.eps_end < cfg.eps_start
          /\ agent = AgentInit(cfg, 0)
    /\ files = NoFiles
    /\ buf = NoBuf
    /\ tr = NoTrain
    /\ op = "init"
    /\ ret = NoRet
    /\ pushed = <<>>

NextEps == agent.steps < MaxSteps /\ EpsilonGreedy

SpecEps == InitEps /\ [][NextEps]_vars

(***************************************************************************)
(* SpecAgent: a freshly constructed DQNAgent under any sequence of         *)
(* epsilon_greedy and optimize calls.                                      *)
(***************************************************************************)
InitAgent ==
    /\ \E cfg \in AgentCfgs, w \in Weights : agent = AgentInit(cfg, w)
    /\ files = NoFiles
    /\ buf = NoBuf
    /\ tr = NoTrain
    /\ op = "init"
    /\ ret = NoRet
    /\ pushed = <<>>

NextAgent ==
    \/ agent.steps < MaxAgentSteps /\ EpsilonGreedy
    \/ agent.opt < MaxOpt /\ Optimize

SpecAgent == InitAgent /\ [][NextAgent]_vars

(***************************************************************************)
(* SpecCkpt: a DQNAgent under any sequence of calls, save, load and        *)
(* resume included, on a checkpoint directory that already holds the       *)
(* checkpoint of another run (other hyperparameters, possibly an older     *)
(* format without the steps or the eps key).                               *)
(***************************************************************************)
InitCkpt ==
    /\ \E cfg \in AgentCfgs : agent = AgentInit(cfg, 0)
    /\ \E old \in OldCkpts : files = ("old.pt" :> old)
    /\ buf = NoBuf
    /\ tr = NoTrain
    /\ op = "init"
    /\ ret = NoRet
    /\ pushed = <<>>

NextCkpt ==
    \/ agent.steps < MaxCkptSteps /\ EpsilonGreedy
    \/ agent.opt < MaxCkptOpt /\ Optimize
    \/ Save
    \/ Load
    \/ Resume

SpecCkpt == InitCkpt /\ [][NextCkpt]_vars

(***************************************************************************)
(* FlappyEnv (src/ai_env.py) as train() sees it.  The physics is not       *)
(* modelled: an episode is the number t of frames played since the reset,  *)
(* a pipe is crossed on every second frame, and whether a frame ends in a  *)
(* collision is the environment's choice.  The observation is the label    *)
(* t + 1 (the label 0 is the zero vector of an empty buffer slot).         *)
(***************************************************************************)
\* FlappyEnv.__init__ / _init_episode_state
EnvInit == [t |-> 0, done |-> FALSE, score |-> 0, total_steps |-> 0,
            episode |-> 0]

\* FlappyEnv.reset
EnvReset(env) ==
    [env EXCEPT !.t = 0, !.done = FALSE, !.score = 0,
                !.episode = env.episode + 1]

\* FlappyEnv._get_state
ObsOf(env) == env.t + 1

\* FlappyEnv._calculate_reward: score gain, step penalty, flap cost, and
\* the override on death
EnvReward(gain, action, collide) ==
    LET base == FAdd(FAdd(0, FMul(IntToFloat(gain), One)), -1)
        flap == IF action = 1 /\ ~collide THEN FSub(base, 1) ELSE base
    IN  IF collide THEN -One ELSE flap

\* FlappyEnv.step: the environment after the call and what it returns
\* (the info dictionary without its epsilon entry, which is None until the
\* caller fills it in)
EnvStep(env, action, collide) ==
    IF env.done
    THEN [env |-> env, obs |-> ObsOf(env), reward |-> 0, done |-> TRUE,
          info |-> [k \in {} |-> 0]]
    ELSE LET gain == IF env.t % 2 = 1 THEN 1 ELSE 0
             e2   == [env EXCEPT !.t = env.t + 1, !.done = collide,
                                 !.score = env.score + gain,
                                 !.total_steps = env.total_steps + 1]
         IN  [env |-> e2, obs |-> ObsOf(e2),
              reward |-> EnvReward(gain, action, collide), done |-> collide,
              info |-> [episode |-> e2.episode, score |-> e2.score,
                        steps |-> e2.total_steps]]

(***************************************************************************)
(* train() (rl/train.py).  tr holds the arguments and the locals of the    *)
(* function; pc is the place in the loop body:                             *)
(*   select -> frames -> push -> learn -> book -> stop -> ckpt -> select   *)
(* and closed (after env.close()) or crashed (an exception left train).    *)
(* Five fields are history, not locals: nopt counts the optimize calls,   *)
(* stale those since the target network was last synchronised,             *)
(* frames lists what env.step returned during the current decision,        *)
(* seen_ma is the highest ma50 a checkpoint step has computed so far, and  *)
(* run numbers the runs of train() on the directory.                       *)
(* The log block (print, progress plot) writes no state and is left out,   *)
(* as is ep_reward, which is only ever assigned.                           *)
(***************************************************************************)
\* best_ma = -1e9
BestMaZero == IntToFloat(0)
BestMaInit == -(One * Pow2(2 * MantBits))

\* np.mean(scores[-50:]) if scores else 0.0
RECURSIVE SumSeq(_)
SumSeq(xs) == IF xs = <<>> THEN 0 ELSE Head(xs) + SumSeq(Tail(xs))

LastScores(scores) ==
    IF Len(scores) <= MaWindow THEN scores
    ELSE SubSeq(scores, Len(scores) - MaWindow + 1, Len(scores))

Ma50(scores) ==
    IF scores = <<>> THEN 0
    ELSE FDiv(IntToFloat(SumSeq(LastScores(scores))),
              IntToFloat(Len(LastScores(scores))))

\* checkpoints / f"ckpt_step_{step}.pt"
StepPath(step) == "ckpt_step_" \o ToString(step) \o ".pt"

\* train() up to the loop: the agent, resumed if args.resume names a file
ResumedAgent(args, cfg, w, dir) ==
    IF args.resume # "" /\ args.resume \in DOMAIN dir
    THEN IF args.reset_eps
         THEN ResetSchedule(Loaded(AgentInit(cfg, w), dir[args.resume]))
         ELSE Loaded(AgentInit(cfg, w), dir[args.resume])
    ELSE AgentInit(cfg, w)

\* train() up to the loop: best_ma, restored from the checkpoint metadata
ResumedBestMa(args, dir) ==
    IF args.resume # "" /\ args.resume \in DOMAIN dir
    THEN Get(dir[args.resume], "best_ma", BestMaInit)
    ELSE BestMaInit

\* the same when the second read of the file, the one for the metadata,
\* may raise: the except clause leaves best_ma as initialised
MetaBestMaZero(args, dir, readable) ==
    IF readable THEN ResumedBestMa(args, dir) ELSE BestMaZero
MetaBestMa(args, dir, readable) ==
    IF readable THEN ResumedBestMa(args, dir) ELSE BestMaInit

\* train() up to the loop: the locals
TrainLocals(args, dir) ==
    [args |-> args, pc |-> "select", step |-> 1,
     env |-> EnvReset(EnvInit), s |-> ObsOf(EnvReset(EnvInit)),
     a |-> 0, s2 |-> 0, total_r |-> 0, done |-> FALSE,
     info |-> [k \in {} |-> 0], k |-> 0,
     episode |-> 1, scores |-> <<>>, best_ma |-> ResumedBestMa(args, dir),
     nopt |-> 0, stale |-> 0, frames |-> <<>>, seen_ma |-> BestMaInit,
     run |-> 1]

\* the warmup test of the action selection
InWarmupInclusive(args, step) == step <= args.warmup_steps
InWarmup(args, step) == step < args.warmup_steps

\* the end of the frame-skip loop after k passes, the last reporting done:
\* range(max(1, frameskip)) is exhausted or the break is taken
LastFrameIgnoresDone(args, k, done) ==
    k >= (IF args.frameskip > 1 THEN args.frameskip ELSE 1)
LastFrameOneMore(args, k, done) ==
    done \/ k > (IF args.frameskip > 1 THEN args.frameskip ELSE 1)
LastFrame(args, k, done) ==
    done \/ k >= (IF args.frameskip > 1 THEN args.frameskip ELSE 1)

\* the test that makes a checkpoint step write best.pt
IsNewBestOrTie(ma50, best_ma) == ma50 >= best_ma
IsNewBest(ma50, best_ma) == ma50 > best_ma

\* the locals after the episode bookkeeping of a step
BookedKeepsObs(t) ==
    IF t.done
    THEN [t EXCEPT !.scores = Append(t.scores, Get(t.info, "score", 0)),
                   !.env = EnvReset(t.env),
                   !.episode = t.episode + 1]
    ELSE t
BookedNoReset(t) ==
    IF t.done
    THEN [t EXCEPT !.scores = Append(t.scores, Get(t.info, "score", 0)),
                   !.episode = t.episode + 1]
    ELSE t
Booked(t) ==
    IF t.done
    THEN [t EXCEPT !.scores = Append(t.scores, Get(t.info, "score", 0)),
                   !.env = EnvReset(t.env),
                   !.s = ObsOf(EnvReset(t.env)),
                   !.episode = t.episode + 1]
    ELSE t

\* the learning trigger
LearnDueAfterWarmup(args, step, b) ==
    /\ step > args.warmup_steps
    /\ BufLen(b) >= args.batch_size
    /\ step % args.optimize_every = 0
LearnDueUnguarded(args, step, b) ==
    step >= args.warmup_steps /\ step % args.optimize_every = 0
LearnDue(args, step, b) ==
    /\ step >= args.warmup_steps
    /\ BufLen(b) >= args.batch_size
    /\ step % args.optimize_every = 0

\* the online weights after opt.step(): the optimizer moves them on
NextWeights(a) == {(a.q + 1) % (MaxWeight + 1)}

\* loop head and action selection
TrainSelect ==
    /\ tr.pc = "select"
    /\ IF tr.step > tr.args.train_steps
       THEN /\ tr' = [tr EXCEPT !.pc = "closed"]
            /\ ret' = NoRet
            /\ UNCHANGED agent
       ELSE IF InWarmup(tr.args, tr.step)
       THEN /\ \E r \in Actions :
                 tr' = [tr EXCEPT !.a = r, !.total_r = 0, !.k = 0,
                                  !.frames = <<>>, !.pc = "frames"]
            /\ ret' = [kind |-> "random"]
            /\ UNCHANGED agent
       ELSE /\ agent' = Stepped(agent)
            /\ \E u \in Draws, r \in Actions :
                 tr' = [tr EXCEPT !.a = GreedyAction(agent', tr.s, u, r),
                                  !.total_r = 0, !.k = 0, !.frames = <<>>,
                                  !.pc = "frames"]
            /\ ret' = [kind |-> "epsilon_greedy"]
    /\ op' = "select"
    /\ UNCHANGED <<buf, files, pushed>>

\* one pass of the frame-skip loop: env.step(a)
TrainFrame ==
    /\ tr.pc = "frames"
    /\ \E collide \in BOOLEAN :
          LET res  == EnvStep(tr.env, tr.a, collide)
              last == LastFrame(tr.args, tr.k + 1, res.done)
          IN  tr' = [tr EXCEPT !.env = res.env, !.s2 = res.obs,
                               !.done = res.done,
                               !.info = ("epsilon" :> agent.eps) @@ res.info,
                               !.total_r = FAdd(tr.total_r, res.reward),
                               !.k = tr.k + 1,
                               !.frames = Append(tr.frames,
                                   [reward |-> res.reward, obs |-> res.obs,
                                    done |-> res.done]),
                               !.pc = IF last THEN "push" ELSE "frames"]
    /\ op' = "env_step"
    /\ ret' = NoRet
    /\ UNCHANGED <<buf, agent, files, pushed>>

\* buf.push(s, a, total_r, s2, done); s = s2
TrainPush ==
    /\ tr.pc = "push"
    /\ buf' = BufPush(buf, Transition(tr.s, tr.a, tr.total_r, tr.s2, tr.done))
    /\ tr' = [tr EXCEPT !.s = tr.s2, !.frames = <<>>, !.pc = "learn"]
    /\ op' = "push"
    /\ ret' = NoRet
    /\ UNCHANGED <<agent, files, pushed>>

\* the learning trigger: buf.sample and agent.optimize
TrainLearn ==
    /\ tr.pc = "learn"
    /\ IF LearnDue(tr.args, tr.step, buf)
       THEN IF SampleAllowed(buf, tr.args.batch_size)
            THEN \E idxs \in [1..tr.args.batch_size -> SampleRange(buf)],
                    nq \in NextWeights(agent) :
                   /\ agent' = Optimized(agent, nq)
                   /\ ret' = [kind |-> "loss",
                              batch |-> BufGather(buf, idxs),
                              target |-> BatchTargets(agent, BufGather(buf, idxs)),
                              synced |-> SyncDue(agent)]
                   /\ tr' = [tr EXCEPT !.nopt = tr.nopt + 1,
                                        !.stale = IF SyncDue(agent) THEN 0
                                                  ELSE tr.stale + 1,
                                        !.pc = "book"]
            ELSE /\ ret' = [kind |-> "AssertionError",
                            batch_size |-> tr.args.batch_size]
                 /\ tr' = [tr EXCEPT !.pc = "crashed"]
                 /\ UNCHANGED agent
       ELSE /\ ret' = NoRet
            /\ tr' = [tr EXCEPT !.pc = "book"]
            /\ UNCHANGED agent
    /\ op' = "learn"
    /\ UNCHANGED <<buf, files, pushed>>

\* episode bookkeeping
TrainBook ==
    /\ tr.pc = "book"
    /\ tr' = [Booked(tr) EXCEPT !.pc = "stop"]
    /\ op' = "book"
    /\ ret' = NoRet
    /\ UNCHANGED <<buf, agent, files, pushed>>

\* the early-stopping tests, timeup being whether time.time() - t0 has
\* reached max_seconds
StopDue(args, episode, timeup) ==
    \/ args.max_seconds > 0 /\ timeup
    \/ args.max_episodes > 0 /\ episode > args.max_episodes

\* early stopping by time or episodes; the clock is read only when
\* max_seconds > 0
TrainStopMidStep ==
    /\ tr.pc \in {"learn", "stop"}
    /\ \E timeup \in (IF tr.args.max_seconds > 0 THEN BOOLEAN ELSE {FALSE}) :
          /\ tr' = IF StopDue(tr.args, tr.episode, timeup)
                   THEN [tr EXCEPT !.pc = "closed"]
                   ELSE [tr EXCEPT !.pc = "ckpt"]
          /\ ret' = IF tr.args.max_seconds > 0
                    THEN [kind |-> "polled", timeup |-> timeup]
                    ELSE NoRet
    /\ op' = "stop"
    /\ UNCHANGED <<buf, agent, files, pushed>>
TrainStop ==
    /\ tr.pc = "stop"
    /\ \E timeup \in (IF tr.args.max_seconds > 0 THEN BOOLEAN ELSE {FALSE}) :
          /\ tr' = IF StopDue(tr.args, tr.episode, timeup)
                   THEN [tr EXCEPT !.pc = "closed"]
                   ELSE [tr EXCEPT !.pc = "ckpt"]
          /\ ret' = IF tr.args.max_seconds > 0
                    THEN [kind |-> "polled", timeup |-> timeup]
                    ELSE NoRet
    /\ op' = "stop"
    /\ UNCHANGED <<buf, agent, files, pushed>>

\* whether a step is a checkpoint step
CkptDueAlways(args, step) == TRUE
CkptDue(args, step) == step % args.ckpt_every = 0

\* periodic checkpoint and best checkpoint; then the next step
TrainCkpt ==
    /\ tr.pc = "ckpt"
    /\ IF CkptDue(tr.args, tr.step)
       THEN LET ma50   == Ma50(tr.scores)
                better == IsNewBest(ma50, tr.best_ma)
                best   == IF better THEN ma50 ELSE tr.best_ma
                latest == SaveData(agent, [ma50 |-> ma50, best_ma |-> tr.best_ma,
                                           step |-> tr.step])
                top    == SaveData(agent, [ma50 |-> ma50, best_ma |-> best,
                                           step |-> tr.step])
            IN  /\ files' = IF better
                              THEN ("best.pt" :> top) @@ (StepPath(tr.step) :> latest) @@ files
                              ELSE (StepPath(tr.step) :> latest) @@ files
                /\ tr' = [tr EXCEPT !.best_ma = best, !.step = tr.step + 1,
                                    !.seen_ma = IF ma50 > tr.seen_ma THEN ma50
                                                ELSE tr.seen_ma,
                                    !.pc = "select"]
                /\ ret' = [kind |-> "saved", best |-> better]
       ELSE /\ files' = files
            /\ tr' = [tr EXCEPT !.step = tr.step + 1, !.pc = "select"]
            /\ ret' = NoRet
    /\ op' = "ckpt"
    /\ UNCHANGED <<buf, agent, pushed>>

NextTrain ==
    \/ TrainSelect
    \/ TrainFrame
    \/ TrainPush
    \/ TrainLearn
    \/ TrainBook
    \/ TrainStop
    \/ TrainCkpt

(***************************************************************************)
(* SpecTrain: train() on a fresh checkpoint directory, over the warmup,    *)
(* batch size, capacity, learning period, synchronisation period and       *)
(* frame-skip settings below.                                              *)
(***************************************************************************)
TrainCfgs == {DQNConfig(One \div 2, T, One, 1, 2) : T \in 1..MaxSync}

LearnArgs ==
    [warmup_steps : 0..MaxWarmup, batch_size : 1..MaxBatch,
     capacity : 1..MaxCapacity, optimize_every : 1..MaxOptEvery,
     frameskip : {0, 2}, train_steps : {MaxTrainSteps},
     max_seconds : {0}, max_episodes : {0}, ckpt_every : {2},
     resume : {""}, reset_eps : {FALSE}]

InitTrain ==
    /\ \E args \in LearnArgs, cfg \in TrainCfgs :
          /\ agent = ResumedAgent(args, cfg, 0, NoFiles)
          /\ buf = BufInit(args.capacity)
          /\ tr = TrainLocals(args, NoFiles)
    /\ files = NoFiles
    /\ op = "init"
    /\ ret = NoRet
    /\ pushed = <<>>

SpecTrain == InitTrain /\ [][NextTrain]_vars

(***************************************************************************)
(* SpecResume: train() run up to MaxRuns times on one checkpoint           *)
(* directory.  The first run finds the directory empty or holding the      *)
(* checkpoint of another program version (no best_ma field) and may resume *)
(* from it; every later run resumes from a file the directory holds, with  *)
(* or without --reset-eps.  Each run is a new process: new environment,    *)
(* new agent, new buffer, step 1.  A run takes MaxRunSteps steps and       *)
(* writes a checkpoint at each.                                            *)
(***************************************************************************)
ResumeCfg == DQNConfig(One \div 2, 1, One, 1, 2)

ResumeArgs(resume, reset_eps) ==
    [warmup_steps |-> 0, batch_size |-> 1, capacity |-> 1,
     optimize_every |-> 1, frameskip |-> 0, train_steps |-> MaxRunSteps,
     max_seconds |-> 0, max_episodes |-> 0, ckpt_every |-> 1,
     resume |-> resume, reset_eps |-> reset_eps]

\* args.resume and Path(args.resume).exists()
Resuming(args, dir) == args.resume # "" /\ args.resume \in DOMAIN dir

\* what the start of a run leaves in op and ret
StartOp(args, dir) == IF Resuming(args, dir) THEN "resume" ELSE "init"

StartRet(args, dir, readable) ==
    IF Resuming(args, dir)
    THEN [kind |-> "resumed", path |-> args.resume,
          reset_eps |-> args.reset_eps, meta |-> readable]
    ELSE NoRet

InitResume ==
    /\ files \in {NoFiles} \cup {("old.pt" :> old) : old \in OldCkpts}
    /\ \E resume \in {"", "old.pt"}, reset_eps \in BOOLEAN, readable \in BOOLEAN :
          LET args == ResumeArgs(resume, reset_eps)
          IN  /\ agent = ResumedAgent(args, ResumeCfg, 0, files)
              /\ buf = BufInit(args.capacity)
              /\ tr = [TrainLocals(args, files) EXCEPT
                           !.best_ma = MetaBestMa(args, files, readable)]
              /\ op = StartOp(args, files)
              /\ ret = StartRet(args, files, readable)
    /\ pushed = <<>>

\* the next run of train() on the same directory, resuming from path
TrainAgain ==
    /\ tr.pc = "closed"
    /\ tr.run < MaxRuns
    /\ \E path \in DOMAIN files, reset_eps \in BOOLEAN, readable \in BOOLEAN :
          LET args == ResumeArgs(path, reset_eps)
          IN  /\ agent' = ResumedAgent(args, ResumeCfg, 0, files)
              /\ buf' = BufInit(args.capacity)
              /\ tr' = [TrainLocals(args, files) EXCEPT
                            !.best_ma = MetaBestMa(args, files, readable),
                            !.seen_ma = tr.seen_ma, !.run = tr.run + 1]
              /\ op' = StartOp(args, files)
              /\ ret' = StartRet(args, files, readable)
    /\ UNCHANGED <<files, pushed>>

NextResume ==
    \/ TrainSelect
    \/ TrainFrame
    \/ TrainPush
    \/ TrainLearn
    \/ TrainBook
    \/ TrainStop
    \/ TrainCkpt
    \/ TrainAgain

SpecResume == InitResume /\ [][NextResume]_vars

(***************************************************************************)
(* SpecStop: train() under every combination of the three stopping         *)
(* arguments, 0 included, on a fresh directory, with a checkpoint period   *)
(* of one or two steps.                                                    *)
(***************************************************************************)
StopArgs ==
    [warmup_steps : {0}, batch_size : {1}, capacity : {1},
     optimize_every : {1}, frameskip : {0, 2},
     train_steps : {0, MaxStopSteps}, max_seconds : {0, 1},
     max_episodes : 0..MaxEpisodes, ckpt_every : {1, 2},
     resume : {""}, reset_eps : {FALSE}]

InitStop ==
    /\ \E args \in StopArgs :
          /\ agent = ResumedAgent(args, ResumeCfg, 0, NoFiles)
          /\ buf = BufInit(args.capacity)
          /\ tr = TrainLocals(args, NoFiles)
    /\ files = NoFiles
    /\ op = "init"
    /\ ret = NoRet
    /\ pushed = <<>>

SpecStop == InitStop /\ [][NextTrain]_vars

\* the same, with the interpreter running the function on: a statement
\* that can run does
SpecStopFair == InitStop /\ [][NextTrain]_vars /\ WF_vars(NextTrain)

(***************************************************************************)
(* SpecFail: train() as in SpecStop, with the two failures the loop can    *)
(* meet from outside: the window is closed while env.step runs (pygame     *)
(* QUIT event, SystemExit), and a torch.save of a checkpoint step raises   *)
(* (OSError: directory not writable, disk full).  train() has no handler   *)
(* for either, so the exception leaves the function.                       *)
(***************************************************************************)
\* what a torch.save that raised leaves at path: nothing new when the open
\* failed, an incomplete file when the write failed
Truncated == [partial |-> TRUE]

FailedWrite(dir, path) == {dir, (path :> Truncated) @@ dir}

\* env.step(a) with a QUIT event pending: FlappyEnv._process_events raises
\* SystemExit before the frame is played
TrainQuitRetried ==
    /\ tr.pc = "frames"
    /\ ~tr.env.done
    /\ op' = "env_step"
    /\ ret' = [kind |-> "SystemExit"]
    /\ UNCHANGED <<tr, buf, agent, files, pushed>>
TrainQuit ==
    /\ tr.pc = "frames"
    /\ ~tr.env.done
    /\ tr' = [tr EXCEPT !.pc = "crashed"]
    /\ op' = "env_step"
    /\ ret' = [kind |-> "SystemExit"]
    /\ UNCHANGED <<buf, agent, files, pushed>>

\* a checkpoint step one of whose agent.save calls raises: the one of the
\* step-numbered checkpoint, or the one of best.pt after the step-numbered
\* checkpoint was written and best_ma updated
TrainCkptFail ==
    /\ tr.pc = "ckpt"
    /\ CkptDue(tr.args, tr.step)
    /\ LET ma50   == Ma50(tr.scores)
           latest == SaveData(agent, [ma50 |-> ma50, best_ma |-> tr.best_ma,
                                      step |-> tr.step])
           saved  == (StepPath(tr.step) :> latest) @@ files
       IN  \/ /\ files' \in FailedWrite(files, StepPath(tr.step))
              /\ tr' = [tr EXCEPT !.pc = "crashed"]
              /\ ret' = [kind |-> "OSError", path |-> StepPath(tr.step)]
           \/ /\ IsNewBest(ma50, tr.best_ma)
              /\ files' \in FailedWrite(saved, "best.pt")
              /\ tr' = [tr EXCEPT !.best_ma = ma50, !.pc = "crashed"]
              /\ ret' = [kind |-> "OSError", path |-> "best.pt"]
    /\ op' = "ckpt"
    /\ UNCHANGED <<buf, agent, pushed>>

NextFail ==
    \/ NextTrain
    \/ TrainQuit
    \/ TrainCkptFail

SpecFail == InitStop /\ [][NextFail]_vars

(***************************************************************************)
(* SpecView: the training process rewriting best.pt while the              *)
(* visualization server (server/ai_server.py), another process, reloads it *)
(* after each game over.  The two meet only at the file, so the write is   *)
(* modelled at the grain the other process can see: torch.save(data, path) *)
(* opens path for writing, which empties it, and the file is complete only *)
(* when the writer has finished; a torch.load in between finds an          *)
(* incomplete archive and raises.  tr holds the writer's position, the     *)
(* dict being written, the number of best checkpoints written and the      *)
(* server's globals (its agent, model_ma50, its position in the reload).   *)
(***************************************************************************)
\* ai_server.init_agent: DQNConfig with its default schedule
ViewerCfg == DQNConfig(One, 1, One, One \div 2, 4)

\* the extra of the n-th best checkpoint: every best ma50 exceeds the last
BestTags(n, a) ==
    [ma50 |-> IntToFloat(n), best_ma |-> IntToFloat(n), step |-> a.steps]

\* ckpt_meta.get("ma50") or ckpt_meta.get("best_ma"), then
\* float(ma_val) if ma_val is not None else model_ma50
MetaMa50(ckpt, model_ma50) ==
    IF "ma50" \in DOMAIN ckpt /\ ckpt.ma50 # 0 THEN ckpt.ma50
    ELSE Get(ckpt, "best_ma", model_ma50)

InitView ==
    /\ agent = Stepped(AgentInit(ResumeCfg, 0))
    /\ files = ("best.pt" :> SaveData(agent, BestTags(1, agent)))
    /\ tr = [pc |-> "idle", data |-> NoRet, nbest |-> 1,
             viewer |-> [pc |-> "play",
                         agent |-> Loaded(AgentInit(ViewerCfg, 0), files["best.pt"]),
                         model_ma50 |-> files["best.pt"].ma50]]
    /\ buf = NoBuf
    /\ op = "init"
    /\ ret = NoRet
    /\ pushed = <<>>

\* the training loop between two checkpoint steps: actions are selected
\* and the online weights move
TrainerStep ==
    /\ tr.pc = "idle"
    /\ agent.steps < MaxViewSteps
    /\ \E nq \in NextWeights(agent) : agent' = Optimized(Stepped(agent), nq)
    /\ op' = "train"
    /\ ret' = NoRet
    /\ UNCHANGED <<buf, files, tr, pushed>>

\* agent.save("best.pt", extra): torch.save opens the file
SaveOpen ==
    /\ tr.pc = "idle"
    /\ tr.nbest < MaxViewWrites
    /\ tr' = [tr EXCEPT !.pc = "writing",
                        !.data = SaveData(agent, BestTags(tr.nbest + 1, agent)),
                        !.nbest = tr.nbest + 1]
    /\ files' = ("best.pt" :> Truncated) @@ files
    /\ op' = "save_open"
    /\ ret' = NoRet
    /\ UNCHANGED <<buf, agent, pushed>>

\* agent.save("best.pt", extra): torch.save has written the dict and
\* closed the file
SaveClose ==
    /\ tr.pc = "writing"
    /\ tr' = [tr EXCEPT !.pc = "idle", !.data = NoRet]
    /\ files' = ("best.pt" :> tr.data) @@ files
    /\ op' = "save_close"
    /\ ret' = NoRet
    /\ UNCHANGED <<buf, agent, pushed>>

\* ai_game_loop after a game over: agent.load(best.pt); the exception of
\* a failed load is caught and printed, the server's agent is unchanged
ViewerReload ==
    /\ tr.viewer.pc = "play"
    /\ "best.pt" \in DOMAIN files
    /\ IF files["best.pt"] = Truncated
       THEN /\ ret' = [kind |-> "reload_failed"]
            /\ tr' = tr
       ELSE /\ ret' = [kind |-> "reloaded", ckpt |-> files["best.pt"]]
            /\ tr' = [tr EXCEPT !.viewer.agent =
                                    Loaded(tr.viewer.agent, files["best.pt"]),
                                !.viewer.pc = "meta"]
    /\ op' = "viewer_load"
    /\ UNCHANGED <<buf, agent, files, pushed>>

\* ai_game_loop after a game over: the second read of best.pt, for
\* model_ma50; an exception is passed over
ViewerMeta ==
    /\ tr.viewer.pc = "meta"
    /\ IF files["best.pt"] = Truncated
       THEN /\ ret' = [kind |-> "meta_failed"]
            /\ tr' = [tr EXCEPT !.viewer.pc = "play"]
       ELSE /\ ret' = [kind |-> "meta", ckpt |-> files["best.pt"]]
            /\ tr' = [tr EXCEPT !.viewer.model_ma50 =
                                    MetaMa50(files["best.pt"],
                                             tr.viewer.model_ma50),
                                !.viewer.pc = "play"]
    /\ op' = "viewer_meta"
    /\ UNCHANGED <<buf, agent, files, pushed>>

NextView ==
    \/ TrainerStep
    \/ SaveOpen
    \/ SaveClose
    \/ ViewerReload
    \/ ViewerMeta

SpecView == InitView /\ [][NextView]_vars

(***************************************************************************)
(* SpecRng: two runs side by side (worlds 1 and 2), to compare what        *)
(* buf.sample returns.  Both build ReplayBuffer(seed = the same seed) and  *)
(* make the same push and sample calls; they differ in the draws made in   *)
(* between on the two other generators of the process: numpy's global      *)
(* generator, which epsilon_greedy draws from and train() never seeds, and *)
(* Python's random module, which FlappyEnv seeds and draws from.  A        *)
(* generator is a state in 0..RngMod-1 that every draw moves on; buf is    *)
(* the pair of buffers, each with its rng, and tr holds the pair of        *)
(* states of each global generator.                                        *)
(***************************************************************************)
Worlds == 1..2

RngStates == 0..(RngMod - 1)

\* np.random.default_rng(seed), random.seed(seed): the state a seed gives
SeededRng(seed) == (3 * seed + 1) % RngMod

\* one draw: the state after it, and the value drawn in 0..size-1
RngNext(g) == (g + 1) % RngMod

RngValue(g, size) == RngNext(g) % size

\* rng.integers(0, size, size=n) on a generator in state g
RECURSIVE RngIntegers(_, _, _)
RngIntegers(g, size, n) ==
    IF n = 0 THEN [rng |-> g, idxs |-> <<>>]
    ELSE LET r == RngIntegers(g, size, n - 1)
         IN  [rng |-> RngNext(r.rng),
              idxs |-> Append(r.idxs, RngValue(r.rng, size))]

\* ReplayBuffer.__init__ with its generator
SeededBuf(capacity, seed) == [rng |-> SeededRng(seed)] @@ BufInit(capacity)

\* ReplayBuffer.sample: the indices drawn, the buffer and numpy's global
\* generator np after the call
SampleIdxsGlobal(b, np, batch_size) ==
    LET r == RngIntegers(np, BufLen(b), batch_size)
    IN  [idxs |-> r.idxs, buf |-> b, np |-> r.rng]
SampleIdxs(b, np, batch_size) ==
    LET r == RngIntegers(b.rng, BufLen(b), batch_size)
    IN  [idxs |-> r.idxs, buf |-> [b EXCEPT !.rng = r.rng], np |-> np]

InitRng ==
    /\ \E c \in 1..MaxRngCapacity, seed \in 0..1 :
          /\ buf = [w \in Worlds |-> SeededBuf(c, seed)]
          /\ \E np \in [Worlds -> RngStates] :
                tr = [pc |-> "none", np |-> np,
                      random |-> [w \in Worlds |-> SeededRng(seed)]]
    /\ agent = NoAgent
    /\ files = NoFiles
    /\ op = "init"
    /\ ret = NoRet
    /\ pushed = <<>>

\* buf.push(...) in both worlds, with the same arguments
RngPush ==
    /\ Len(pushed) < MaxRngPush
    /\ LET t == Transition(Len(pushed) + 1, 0, BufReward(FALSE),
                           Len(pushed) + 2, FALSE)
       IN  /\ buf' = [w \in Worlds |-> BufPush(buf[w], t)]
           /\ pushed' = Append(pushed, t)
    /\ op' = "push"
    /\ ret' = NoRet
    /\ UNCHANGED <<agent, files, tr>>

\* buf.sample(batch_size) in both worlds, with the same batch size
RngSample ==
    /\ \E bs \in 1..MaxBatch :
          /\ \A w \in Worlds : SampleAllowed(buf[w], bs)
          /\ LET r == [w \in Worlds |-> SampleIdxs(buf[w], tr.np[w], bs)]
             IN  /\ buf' = [w \in Worlds |-> r[w].buf]
                 /\ tr' = [tr EXCEPT !.np = [w \in Worlds |-> r[w].np]]
                 /\ ret' = [kind |-> "idxs", batch_size |-> bs,
                            idxs |-> [w \in Worlds |-> r[w].idxs]]
    /\ op' = "sample"
    /\ UNCHANGED <<agent, files, pushed>>

\* world w only: a draw of epsilon_greedy (np.random.random(),
\* np.random.randint) or of the warmup branch of train
ExploreDraw ==
    /\ \E w \in Worlds : tr' = [tr EXCEPT !.np[w] = RngNext(tr.np[w])]
    /\ op' = "explore"
    /\ ret' = NoRet
    /\ UNCHANGED <<buf, agent, files, pushed>>

\* world w only: a draw of the environment (random module)
EnvDraw ==
    /\ \E w \in Worlds : tr' = [tr EXCEPT !.random[w] = RngNext(tr.random[w])]
    /\ op' = "env_draw"
    /\ ret' = NoRet
    /\ UNCHANGED <<buf, agent, files, pushed>>

NextRng ==
    \/ RngPush
    \/ RngSample
    \/ ExploreDraw
    \/ EnvDraw

SpecRng == InitRng /\ [][NextRng]_vars

(***************************************************************************)
(* SpecOpt: optimize with the gradient of the online network made          *)
(* visible.  The network has one gradient: grad is <<>> (None) or <<g>>;   *)
(* loss.backward() adds the gradient of the loss to it (or sets it when    *)
(* None); opt.step() reads it, and applied records what it read.  The      *)
(* gradient g of the loss and the weights nq Adam arrives at are the       *)
(* choice of the arithmetic.  Gradients and grad_clip are in float units.  *)
(***************************************************************************)
\* the gradients loss.backward() can produce
Grads == {-(2 * One), -(One \div 2), 0, One \div 2, 2 * One}

\* DQNConfig with grad_clip
OptCfgs ==
    {[grad_clip |-> c] @@ DQNConfig(One \div 2, T, One, 1, 2) :
        c \in {One \div 2, One}, T \in 1..MaxSync}

\* DQNAgent.__init__: no gradient yet
GradAgent(cfg, w) == [grad |-> <<>>, applied |-> <<>>] @@ AgentInit(cfg, w)

\* self.opt.zero_grad(set_to_none=True)
ZeroGrad(a) == [a EXCEPT !.grad = <<>>]

\* loss.backward(), g being the gradient of the loss
Backward(a, g) ==
    [a EXCEPT !.grad = IF a.grad = <<>> THEN <<g>> ELSE <<a.grad[1] + g>>]

\* the scaling of clip_grad_norm_: by max_norm / norm when the norm
\* exceeds max_norm (the 1e-6 added to the norm is left out)
Clipped(g, max_norm) == IF Abs(g) > max_norm THEN Sign(g) * max_norm ELSE g

\* nn.utils.clip_grad_norm_(self.q.parameters(), self.cfg.grad_clip)
ClipGradNorm(a) ==
    [a EXCEPT !.grad = IF a.grad = <<>> THEN <<>>
                       ELSE <<Clipped(a.grad[1], a.cfg.grad_clip)>>]

\* self.opt.step(), nq being the weights it arrives at
OptStep(a, nq) ==
    [a EXCEPT !.q = nq, !.opt = a.opt + 1, !.applied = a.grad]

\* the target synchronisation at the end of optimize
SyncTarget(a) == IF SyncDue(a) THEN [a EXCEPT !.target = a.q] ELSE a

\* DQNAgent.optimize from zero_grad on, in the order of the statements
OptimizeCallClipsLast(a, g, nq) ==
    SyncTarget(ClipGradNorm(OptStep(Backward(ZeroGrad(a), g), nq)))
OptimizeCall(a, g, nq) ==
    SyncTarget(OptStep(ClipGradNorm(Backward(ZeroGrad(a), g)), nq))

InitOpt ==
    /\ \E cfg \in OptCfgs, w \in Weights : agent = GradAgent(cfg, w)
    /\ files = NoFiles
    /\ buf = NoBuf
    /\ tr = NoTrain
    /\ op = "init"
    /\ ret = NoRet
    /\ pushed = <<>>

\* agent.optimize(batch) on a batch of one row
OptimizeGrad ==
    /\ \E row \in Rows, g \in Grads, nq \in Weights :
          /\ agent' = OptimizeCall(agent, g, nq)
          /\ ret' = [kind |-> "loss", batch |-> Columns(<<row>>),
                     target |-> BatchTargets(agent, Columns(<<row>>)),
                     grad |-> g, synced |-> SyncDue(agent)]
    /\ op' = "optimize"
    /\ UNCHANGED <<buf, files, tr, pushed>>

NextOpt ==
    \/ agent.steps < MaxOptSteps /\ EpsilonGreedy
    \/ agent.opt < MaxOpt /\ OptimizeGrad

SpecOpt == InitOpt /\ [][NextOpt]_vars

(***************************************************************************)
(* The viewer server (server/ai_server.py): the game loop ai_game_loop     *)
(* and the websocket handlers, which run on one asyncio event loop, so a   *)
(* handler or a stretch of the game loop between two awaits is one step.   *)
(* tr holds the module globals users, user_queue, next_pair_id and env;    *)
(* env is reduced to its pipes and its done flag.  A pipe pair is one      *)
(* record: x, pair_id and the ownerUserId of the upper and of the lower    *)
(* pipe; a missing attribute and None are both None.  Left out: the y of   *)
(* the pipes (moving gaps, user input applied to the gap), the bird, the   *)
(* score, the socket of a user and the broadcasts, which write no state    *)
(* read here.  A user id is the number of the join that created it.        *)
(* Lengths are in a reduced scale (see the bounds).                        *)
(***************************************************************************)
None == 0

\* PLAYER_COLORS, by position
PLAYER_COLORS == 1..NumColors

Range(seq) == {seq[i] : i \in DOMAIN seq}

\* Pipes.make_random_pipes
MakeRandomPipes ==
    [x |-> WindowWidth + PipeMargin, pair_id |-> None,
     up_owner |-> None, low_owner |-> None]

\* Pipes.__init__ / spawn_initial_pipes: a new Pipes object has the methods
\* of its class
NewPipes ==
    LET x1 == WindowWidth + PipeW * 3
    IN  [pairs |-> << [MakeRandomPipes EXCEPT !.x = x1],
                      [MakeRandomPipes EXCEPT !.x = x1 + (PipeW * 7) \div 2] >>,
         wide |-> FALSE]

\* init_agent: FlappyEnv(...) and the two overrides set on env.pipes
InitAgentEnv == [pipes |-> [NewPipes EXCEPT !.wide = TRUE], done |-> FALSE]

\* FlappyEnv.reset: _init_episode_state builds every entity anew
ServerEnvReset(env) == [pipes |-> NewPipes, done |-> FALSE]

\* _ensure_pair_metadata / _attach_pair_metadata
RECURSIVE EnsurePairMetadata(_, _)
EnsurePairMetadata(pairs, next) ==
    IF pairs = <<>> THEN [pairs |-> <<>>, next_pair_id |-> next]
    ELSE LET p    == Head(pairs)
             new  == p.pair_id = None
             q    == IF new THEN [p EXCEPT !.pair_id = next] ELSE p
             rest == EnsurePairMetadata(Tail(pairs),
                                        IF new THEN next + 1 ELSE next)
         IN  [pairs |-> <<q>> \o rest.pairs,
              next_pair_id |-> rest.next_pair_id]

\* the while loop of _fill_wide_view_pipes
RECURSIVE FillFrom(_, _, _, _)
FillFrom(pairs, next, last_x, target_last_x) ==
    IF last_x + WideSpacing < target_last_x
    THEN FillFrom(Append(pairs, [MakeRandomPipes EXCEPT
                                     !.x = last_x + WideSpacing,
                                     !.pair_id = next]),
                  next + 1, last_x + WideSpacing, target_last_x)
    ELSE [pairs |-> pairs, next_pair_id |-> next]

\* _fill_wide_view_pipes
FillWideViewPipes(sv, target_last_x) ==
    LET start  == IF sv.env.pipes.pairs = <<>> THEN <<MakeRandomPipes>>
                  ELSE sv.env.pipes.pairs
        ens    == EnsurePairMetadata(start, sv.next_pair_id)
        filled == FillFrom(ens.pairs, ens.next_pair_id,
                           ens.pairs[Len(ens.pairs)].x, target_last_x)
    IN  [sv EXCEPT !.env.pipes.pairs = filled.pairs,
                   !.next_pair_id = filled.next_pair_id]

\* apply_user_inputs_to_pipes: _ensure_pair_metadata, then the gaps of the
\* owned pairs are moved
ApplyUserInputsToPipes(sv) ==
    LET ens == EnsurePairMetadata(sv.env.pipes.pairs, sv.next_pair_id)
    IN  [sv EXCEPT !.env.pipes.pairs = ens.pairs,
                   !.next_pair_id = ens.next_pair_id]

\* release_offscreen_owned, from pair i on
RECURSIVE ReleaseFrom(_, _)
ReleaseFrom(sv, i) ==
    IF i > Len(sv.env.pipes.pairs) THEN sv
    ELSE LET p     == sv.env.pipes.pairs[i]
             owner == p.up_owner
             known == owner \in DOMAIN sv.users
         IN  IF owner # None /\ p.x < 0
             THEN ReleaseFrom(
                    [sv EXCEPT
                       !.env.pipes.pairs[i] =
                           [p EXCEPT !.up_owner = None, !.low_owner = None],
                       !.users = IF known
                                 THEN [sv.users EXCEPT ![owner].assigned = None]
                                 ELSE sv.users,
                       !.user_queue =
                           IF known /\ owner \notin Range(sv.user_queue)
                           THEN Append(sv.user_queue, owner)
                           ELSE sv.user_queue],
                    i + 1)
             ELSE ReleaseFrom(sv, i + 1)

ReleaseOffscreenOwned(sv) == ReleaseFrom(sv, 1)

\* the record users.setdefault gives an unknown uid
DefaultUser == [joined |-> TRUE, assigned |-> None, last_dy |-> 0]

\* the while loop of _assign_waiting_users_to_pipes over the candidates,
\* which are sorted by x
RECURSIVE AssignFrom(_, _)
AssignFrom(sv, candidates) ==
    IF sv.user_queue = <<>> \/ candidates = {} THEN sv
    ELSE LET pairs == sv.env.pipes.pairs
             i     == CHOOSE c \in candidates : \A d \in candidates :
                         \/ pairs[c].x < pairs[d].x
                         \/ pairs[c].x = pairs[d].x /\ c <= d
             uid   == Head(sv.user_queue)
             old   == IF uid \in DOMAIN sv.users THEN sv.users[uid]
                      ELSE DefaultUser
         IN  AssignFrom(
                [sv EXCEPT
                   !.env.pipes.pairs[i] =
                       [pairs[i] EXCEPT !.up_owner = uid, !.low_owner = uid],
                   !.user_queue = Tail(sv.user_queue),
                   !.users = (uid :> [old EXCEPT !.assigned = pairs[i].pair_id])
                             @@ sv.users],
                candidates \ {i})

\* _assign_waiting_users_to_pipes
AssignWaitingUsersToPipes(sv) ==
    LET pairs   == sv.env.pipes.pairs
        unowned == {i \in DOMAIN pairs : pairs[i].up_owner = None}
        future  == {i \in unowned : pairs[i].x >= VisibleRight}
    IN  IF sv.user_queue = <<>> THEN sv
        ELSE AssignFrom(sv, IF future # {} THEN future ELSE unowned)

\* _after_step_maintenance
AfterStepMaintenance(sv) ==
    AssignWaitingUsersToPipes(
        ReleaseOffscreenOwned(
            ApplyUserInputsToPipes(FillWideViewPipes(sv, TargetStep))))

\* Pipes.can_spawn_pipes of the class (pairs is never empty when it runs)
CanSpawnPipes(pairs) ==
    LET last == pairs[Len(pairs)]
    IN  2 * (WindowWidth - (last.x + PipeW)) > PipeW * 5

\* can_spawn_pipes_modified_impl, the override of init_agent
CanSpawnPipesModified(pairs) ==
    IF pairs = <<>> THEN TRUE ELSE pairs[Len(pairs)].x < WideSpawnX

Without(seq, i) == SubSeq(seq, 1, i - 1) \o SubSeq(seq, i + 1, Len(seq))

\* Pipes.remove_old_pipes of the class: each list is changed while it is
\* iterated, so the pipe after a removed one is not looked at; both lists
\* hold the same x, so the pairs stay pairs
RECURSIVE RemoveOldFrom(_, _)
RemoveOldFrom(pairs, i) ==
    IF i > Len(pairs) THEN pairs
    ELSE IF pairs[i].x < -PipeW THEN RemoveOldFrom(Without(pairs, i), i + 1)
    ELSE RemoveOldFrom(pairs, i + 1)

RemoveOldPipes(pairs) == RemoveOldFrom(pairs, 1)

\* remove_old_pipes_modified_impl, over a copy of the lists: rest is still
\* to be looked at, kept has been looked at and stays
RECURSIVE RemoveModifiedFrom(_, _, _)
RemoveModifiedFrom(sv, rest, kept) ==
    IF rest = <<>> THEN [sv EXCEPT !.env.pipes.pairs = kept]
    ELSE LET p     == Head(rest)
             owner == IF p.up_owner # None THEN p.up_owner ELSE p.low_owner
         IN  IF p.x < -PipeW - WideRemoveMargin
             THEN RemoveModifiedFrom(
                    IF owner # None /\ owner \in DOMAIN sv.users
                    THEN [sv EXCEPT !.users[owner].assigned = None,
                                    !.user_queue = Append(@, owner)]
                    ELSE sv,
                    Tail(rest), kept)
             ELSE RemoveModifiedFrom(sv, Tail(rest), Append(kept, p))

RemoveOldPipesModified(sv) ==
    RemoveModifiedFrom(sv, sv.env.pipes.pairs, <<>>)

\* Pipe.draw, once per tick: x += vel_x
Moved(pairs) == [i \in DOMAIN pairs |-> [pairs[i] EXCEPT !.x = @ - PipeVel]]

\* Pipes.tick as env.step runs it: the spawn test and the removal are the
\* attributes found on the Pipes object
PipesTickWide(sv) ==
    LET pairs   == sv.env.pipes.pairs
        spawned == IF CanSpawnPipesModified(pairs)
                   THEN Append(pairs, MakeRandomPipes) ELSE pairs
        removed == AssignWaitingUsersToPipes(RemoveOldPipesModified(
                       [sv EXCEPT !.env.pipes.pairs = spawned]))
    IN  [removed EXCEPT !.env.pipes.pairs = Moved(@)]

PipesTickClass(sv) ==
    LET pairs   == sv.env.pipes.pairs
        spawned == IF CanSpawnPipes(pairs)
                   THEN Append(pairs, MakeRandomPipes) ELSE pairs
    IN  [sv EXCEPT !.env.pipes.pairs = Moved(RemoveOldPipes(spawned))]

PipesTick(sv) ==
    IF sv.env.pipes.wide THEN PipesTickWide(sv) ELSE PipesTickClass(sv)

\* FlappyEnv.step, collide being what _check_collisions finds
ServerEnvStep(sv, collide) ==
    IF sv.env.done THEN sv
    ELSE [PipesTick(sv) EXCEPT !.env.done = collide]

\* _on_game_over
OnGameOverKeepsJoined(sv) ==
    LET f == FillWideViewPipes(sv, TargetReset)
    IN  [f EXCEPT
           !.users = [u \in DOMAIN f.users |->
                         [f.users[u] EXCEPT !.assigned = None, !.last_dy = 0]],
           !.env.pipes.pairs = [i \in DOMAIN @ |->
                         [@[i] EXCEPT !.up_owner = None, !.low_owner = None]]]
OnGameOver(sv) ==
    LET f == FillWideViewPipes(sv, TargetReset)
    IN  [f EXCEPT
           !.user_queue = <<>>,
           !.users = [u \in DOMAIN f.users |->
                         [f.users[u] EXCEPT !.joined = FALSE,
                                            !.assigned = None,
                                            !.last_dy = 0]],
           !.env.pipes.pairs = [i \in DOMAIN @ |->
                         [@[i] EXCEPT !.up_owner = None, !.low_owner = None]]]

\* the users with joined set
Joined(users) == {u \in DOMAIN users : users[u].joined}

\* the admission test of _handle_join_request
JoinAllowedAlways(users) == TRUE
JoinAllowed(users) == Cardinality(Joined(users)) < NumColors

\* _get_or_assign_color_for_user for a new uid: the first colour no joined
\* user has, else the first colour
ColorForUser(users) ==
    LET used == {users[u].color : u \in Joined(users)}
        free == PLAYER_COLORS \ used
    IN  IF free # {} THEN CHOOSE c \in free : \A d \in free : c <= d
        ELSE 1

\* str(uuid.uuid4()): an id no user has
NewUid(users) == Cardinality(DOMAIN users) + 1

\* _handle_join_request: the globals after it, and the reply it sends
HandleJoinRequest(sv) ==
    IF ~JoinAllowed(sv.users) THEN sv
    ELSE LET uid == NewUid(sv.users)
         IN  [sv EXCEPT
                !.users = (uid :> [joined |-> TRUE, assigned |-> None,
                                   last_dy |-> 0,
                                   color |-> ColorForUser(sv.users)])
                          @@ sv.users,
                !.user_queue = Append(@, uid)]

JoinReply(sv) ==
    IF ~JoinAllowed(sv.users) THEN [kind |-> "join_denied", reason |-> "full"]
    ELSE [kind |-> "join_ok", userId |-> NewUid(sv.users),
          color |-> ColorForUser(sv.users)]

\* list.remove(v) under try / except ValueError
RemoveFirst(seq, v) ==
    IF v \in Range(seq)
    THEN Without(seq, CHOOSE i \in DOMAIN seq :
                         seq[i] = v /\ \A j \in 1..(i - 1) : seq[j] # v)
    ELSE seq

\* the loop of _handle_leave: the first pair with the pair_id loses its owner
Disowned(pairs, pair_id) ==
    LET hits == {i \in DOMAIN pairs : pairs[i].pair_id = pair_id}
    IN  IF hits = {} THEN pairs
        ELSE LET i == CHOOSE h \in hits : \A g \in hits : h <= g
             IN  [pairs EXCEPT ![i] = [@ EXCEPT !.up_owner = None,
                                                !.low_owner = None]]

\* _handle_leave
HandleLeaveKeepsPipe(sv, uid) ==
    [sv EXCEPT !.users[uid] = [@ EXCEPT !.joined = FALSE, !.last_dy = 0,
                                        !.assigned = None],
               !.user_queue = RemoveFirst(@, uid)]
HandleLeave(sv, uid) ==
    [sv EXCEPT !.users[uid] = [@ EXCEPT !.joined = FALSE, !.last_dy = 0,
                                        !.assigned = None],
               !.env.pipes.pairs = IF sv.users[uid].assigned # None
                                   THEN Disowned(@, sv.users[uid].assigned)
                                   ELSE @,
               !.user_queue = RemoveFirst(@, uid)]

\* _handle_input: dy clamped to [-1, 1]
HandleInput(sv, uid, dy_val) ==
    [sv EXCEPT !.users[uid].last_dy =
        IF dy_val < -1 THEN -1 ELSE IF dy_val > 1 THEN 1 ELSE dy_val]

\* process_ws_message
ProcessWsMessage(sv, msg) ==
    IF msg.type = "join_request" THEN HandleJoinRequest(sv)
    ELSE IF msg.userId \notin DOMAIN sv.users THEN sv
    ELSE IF msg.type = "leave" THEN HandleLeave(sv, msg.userId)
    ELSE IF msg.type = "input" THEN HandleInput(sv, msg.userId, msg.dy)
    ELSE sv

\* what an input message carries in dy
DyInputs == {-2, 1}

\* the globals after the import of the module and init_agent, before
\* ai_game_loop has run; lim bounds the joins, frames, game overs and input
\* messages
ServerGlobals(lim) ==
    [pc |-> "start", users |-> <<>>, user_queue |-> <<>>, next_pair_id |-> 1,
     env |-> InitAgentEnv, lim |-> lim, nframes |-> 0, ngames |-> 0,
     ninputs |-> 0, pause_joined |-> {}]

\* ai_game_loop up to its loop: env.reset() and the first fill
ServerStart ==
    /\ tr.pc = "start"
    /\ tr' = [FillWideViewPipes([tr EXCEPT !.env = ServerEnvReset(tr.env)],
                                TargetReset)
                 EXCEPT !.pc = "step"]
    /\ op' = "start"
    /\ ret' = NoRet
    /\ UNCHANGED <<buf, agent, files, pushed>>

\* one pass of the loop up to its broadcast: env.step(a) and
\* _after_step_maintenance; ret tells whether the Pipes object that ticked
\* had the wide-view overrides, and which users lost the pair they owned
ServerFrame ==
    /\ tr.pc \in {"step", "sleep"}
    /\ tr.nframes < tr.lim.frames
    /\ \E collide \in (IF tr.ngames < tr.lim.games THEN BOOLEAN ELSE {FALSE}) :
          LET after == AfterStepMaintenance(ServerEnvStep(tr, collide))
          IN  /\ tr' = [after EXCEPT
                           !.pc = IF collide THEN "pause" ELSE "sleep",
                           !.nframes = @ + 1,
                           !.pause_joined = {}]
              /\ ret' = [kind |-> "frame", wide |-> tr.env.pipes.wide,
                         done |-> collide,
                         released |-> {u \in DOMAIN tr.users :
                             /\ tr.users[u].assigned # None
                             /\ after.users[u].assigned # tr.users[u].assigned}]
    /\ op' = "frame"
    /\ UNCHANGED <<buf, agent, files, pushed>>

\* after the game_over broadcast, the reload and the sleep of one second:
\* env.reset() and _on_game_over(env)
ServerRestart ==
    /\ tr.pc = "pause"
    /\ tr' = [OnGameOver([tr EXCEPT !.env = ServerEnvReset(tr.env)])
                 EXCEPT !.pc = "sleep", !.ngames = @ + 1]
    /\ op' = "game_over"
    /\ ret' = NoRet
    /\ UNCHANGED <<buf, agent, files, pushed>>

\* the game loop is suspended in an await: a handler can run
Awaiting == tr.pc \in {"sleep", "pause"}

\* a join_request message is handled
WsJoinRequest ==
    /\ Awaiting
    /\ Cardinality(DOMAIN tr.users) < tr.lim.users
    /\ tr' = [ProcessWsMessage(tr, [type |-> "join_request"]) EXCEPT
                 !.pause_joined = IF tr.pc = "pause" /\ JoinAllowed(tr.users)
                                  THEN @ \cup {NewUid(tr.users)} ELSE @]
    /\ op' = "join_request"
    /\ ret' = JoinReply(tr)
    /\ UNCHANGED <<buf, agent, files, pushed>>

\* a leave message is handled, its userId known or not
WsLeave ==
    /\ Awaiting
    /\ \E uid \in DOMAIN tr.users \cup {NewUid(tr.users)} :
          tr' = ProcessWsMessage(tr, [type |-> "leave", userId |-> uid])
    /\ op' = "leave"
    /\ ret' = NoRet
    /\ UNCHANGED <<buf, agent, files, pushed>>

\* an input message is handled
WsInput ==
    /\ Awaiting
    /\ tr.ninputs < tr.lim.inputs
    /\ \E uid \in DOMAIN tr.users, dy \in DyInputs :
          tr' = [ProcessWsMessage(tr, [type |-> "input", userId |-> uid,
                                       dy |-> dy])
                    EXCEPT !.ninputs = @ + 1]
    /\ op' = "input"
    /\ ret' = NoRet
    /\ UNCHANGED <<buf, agent, files, pushed>>

NextServer ==
    \/ ServerStart
    \/ ServerFrame
    \/ ServerRestart
    \/ WsJoinRequest
    \/ WsLeave
    \/ WsInput

(***************************************************************************)
(* SpecServer: the server over enough frames for owned pipes to leave the  *)
(* screen, with one user more than there are colours.                      *)
(***************************************************************************)
InitServer ==
    /\ tr = ServerGlobals([users |-> MaxServerUsers, frames |-> MaxServerFrames,
                           games |-> MaxServerGames, inputs |-> MaxServerInputs])
    /\ buf = NoBuf
    /\ agent = NoAgent
    /\ files = NoFiles
    /\ op = "init"
    /\ ret = NoRet
    /\ pushed = <<>>

SpecServer == InitServer /\ [][NextServer]_vars

(***************************************************************************)
(* Properties of the ReplayBuffer (SpecBuf).                               *)
(***************************************************************************)
Min(x, y) == IF x <= y THEN x ELSE y

\* the transition held by slot i of the arrays
SlotRow(b, i) ==
    [state |-> b.state[i], action |-> b.action[i], reward |-> b.reward[i],
     next_state |-> b.next_state[i], done |-> b.done[i]]

\* what the arrays hold of a transition t handed to push
Stored(t) ==
    [state |-> t.state, action |-> t.action, reward |-> F32(t.reward),
     next_state |-> t.next_state, done |-> IF t.done THEN One ELSE 0]

\* row i of a batch returned by sample
BatchRow(batch, i) ==
    [state |-> batch.state[i], action |-> batch.action[i],
     reward |-> batch.reward[i], next_state |-> batch.next_state[i],
     done |-> batch.done[i]]

\* C1: after n push calls into a buffer of capacity C >= 1: 0 <= pos < C and
\* pos = n mod C, full holds exactly when n >= C, len(buffer) is C if full
\* else pos, which is min(n, C); and full, once true, stays true.
C1_Counters ==
    LET n == Len(pushed)
        C == buf.capacity
    IN  /\ C >= 1
        /\ buf.pos \in 0..C - 1
        /\ buf.pos = n % C
        /\ buf.full <=> n >= C
        /\ BufLen(buf) = Min(n, C)
        /\ (BufLen(buf) = C) <=> buf.full

C1_PushCounters == []C1_Counters /\ [][buf.full => buf'.full]_vars

C1_Witness == Len(pushed) = 5 /\ buf.capacity = 3 /\ buf.full /\ buf.pos = 2

\* C2: after C+k pushes (k > 0) the buffer holds exactly the C most recent
\* transitions k .. C+k-1 (numbered from 0), in ring order starting at the
\* write cursor: slot pos holds the oldest survivor, transition k; and a
\* push on a full buffer overwrites the slot of the oldest entry and no other.
C2_Survivors ==
    LET n == Len(pushed)
        C == buf.capacity
    IN  n > C =>
          \A j \in 0..C - 1 :
            SlotRow(buf, (buf.pos + j) % C) = Stored(pushed[n - C + j + 1])

C2_Overwrite ==
    (op' = "push" /\ buf.full) =>
        /\ SlotRow(buf, buf.pos) = Stored(pushed[Len(pushed) - buf.capacity + 1])
        /\ SlotRow(buf', buf.pos) = Stored(pushed'[Len(pushed')])
        /\ \A i \in 0..buf.capacity - 1 :
              i # buf.pos => SlotRow(buf', i) = SlotRow(buf, i)

C2_RingKeepsMostRecent == []C2_Survivors /\ [][C2_Overwrite]_vars

C2_Witness ==
    /\ Len(pushed) = 5
    /\ buf.capacity = 3
    /\ SlotRow(buf, buf.pos) = Stored(pushed[3])
    /\ buf.state[buf.pos] = 3

\* C3: sample(batch_size) with batch_size > len(buffer) fails with the
\* assertion error, never returning a batch, and the failed call leaves
\* pos, full and every stored transition unchanged.
C3_Refused ==
    (op = "sample" /\ ret.batch_size > BufLen(buf)) =>
        ret.kind = "AssertionError"

C3_FailedCallFrame ==
    (op' = "sample" /\ ret'.batch_size > BufLen(buf)) =>
        ret'.kind = "AssertionError" /\ buf' = buf

C3_SampleGuard == []C3_Refused /\ [][C3_FailedCallFrame]_vars

C3_Witness ==
    /\ op = "sample"
    /\ ret.kind = "AssertionError"
    /\ ret.batch_size = 2
    /\ BufLen(buf) = 1

\* C4: sample(batch_size) with batch_size <= len(buffer) returns exactly
\* batch_size rows; every row is, in all five fields, one stored transition
\* of a written slot (index in [0, len)), which is one of the min(n, C)
\* most recent pushes; indices may repeat; the call changes nothing.
C4_RowsStored ==
    (op = "sample" /\ ret.batch_size <= BufLen(buf)) =>
        /\ ret.kind = "batch"
        /\ \A f \in {"state", "action", "reward", "next_state", "done"} :
              DOMAIN ret.batch[f] = 1..ret.batch_size
        /\ \A i \in 1..ret.batch_size :
              /\ \E j \in 0..BufLen(buf) - 1 :
                    BatchRow(ret.batch, i) = SlotRow(buf, j)
              /\ \E m \in 1..Len(pushed) :
                    /\ m > Len(pushed) - buf.capacity
                    /\ BatchRow(ret.batch, i) = Stored(pushed[m])

C4_SampleFrame == op' = "sample" => buf' = buf

C4_SampleRows == []C4_RowsStored /\ [][C4_SampleFrame]_vars

\* a batch of two rows drawn from one index of a part-filled buffer
C4_Witness ==
    /\ op = "sample"
    /\ ret.kind = "batch"
    /\ ret.batch_size = 2
    /\ BufLen(buf) = 2
    /\ buf.capacity = 3
    /\ BatchRow(ret.batch, 1) = BatchRow(ret.batch, 2)
    /\ BatchRow(ret.batch, 1) = SlotRow(buf, 1)

(***************************************************************************)
(* Properties of the epsilon schedule (SpecEps).                           *)
(***************************************************************************)
\* the value the schedule computes once the decay period is over
Plateau(cfg) == FAdd(cfg.eps_start, FSub(cfg.eps_end, cfg.eps_start))

\* C6 (as claimed): for eps_end < eps_start, epsilon is non-increasing in
\* steps, is eps_start at steps = 0 and is exactly eps_end for every
\* steps >= eps_decay_steps.
C6_OriginalValues ==
    /\ Epsilon(agent.cfg, 0) = agent.cfg.eps_start
    /\ agent.steps = 0 => agent.eps = agent.cfg.eps_start
    /\ agent.steps >= agent.cfg.eps_decay_steps => agent.eps = agent.cfg.eps_end

C6_Original == []C6_OriginalValues /\ [][agent'.eps <= agent.eps]_vars

\* C6 (amended): for 0 <= eps_end < eps_start and eps_decay_steps >= 1,
\* epsilon is non-increasing in steps, is eps_start at steps = 0, and for
\* every steps >= eps_decay_steps is the constant
\* eps_start + (eps_end - eps_start) as floating point evaluates it, which
\* is within one unit in the last place of eps_start of eps_end and is not
\* always eps_end itself.
C6_Values ==
    /\ Epsilon(agent.cfg, 0) = agent.cfg.eps_start
    /\ agent.steps = 0 => agent.eps = agent.cfg.eps_start
    /\ agent.steps >= agent.cfg.eps_decay_steps =>
          /\ agent.eps = Plateau(agent.cfg)
          /\ Abs(agent.eps - agent.cfg.eps_end) <= Ulp(agent.cfg.eps_start)

C6_EpsilonSchedule == []C6_Values /\ [][agent'.eps <= agent.eps]_vars

\* past the decay period of the schedule 1.0 -> 1/16, epsilon is 0
C6_Witness ==
    /\ agent.cfg.eps_start = One
    /\ agent.cfg.eps_end = 1
    /\ agent.cfg.eps_decay_steps = 2
    /\ agent.steps = 3
    /\ agent.eps = 0

(***************************************************************************)
(* Properties of the agent (SpecAgent, SpecCkpt).                          *)
(***************************************************************************)
\* eps is what the schedule gives for steps
Consistent == agent.eps = Epsilon(agent.cfg, agent.steps)

\* the agent holds the steps and eps it loaded from a checkpoint whose
\* stored (or defaulted) pair is off the agent's schedule
HoldsLoadedPair ==
    \E path \in DOMAIN files :
        /\ agent.steps = Get(files[path], "steps", 0)
        /\ agent.eps = Get(files[path], "eps", agent.cfg.eps_start)

\* C7 (as claimed): in every reachable agent state, loads of any checkpoint
\* included, eps = epsilon(steps) under the agent's current hyperparameters.
C7_Original == Consistent

\* C7 (amended): eps = epsilon(steps) after construction, after every
\* epsilon_greedy and after the resume-time schedule reset, and optimize and
\* save keep steps and eps; load restores the stored steps and eps (0 and
\* eps_start for a missing key) without recomputing, so eps differs from
\* epsilon(steps) only while the agent holds a pair it loaded from a
\* checkpoint, until the next epsilon_greedy call.
C7_States ==
    /\ (op \in {"init", "epsilon_greedy"} \/ (op = "resume" /\ ret.reset_eps))
          => Consistent
    /\ (op = "load" \/ (op = "resume" /\ ~ret.reset_eps)) =>
          /\ agent.steps = Get(files[ret.path], "steps", 0)
          /\ agent.eps = Get(files[ret.path], "eps", agent.cfg.eps_start)
    /\ Consistent \/ HoldsLoadedPair

C7_Frame ==
    op' \in {"optimize", "save"} =>
        agent'.steps = agent.steps /\ agent'.eps = agent.eps

C7_EpsFollowsSteps == []C7_States /\ [][C7_Frame]_vars

\* loaded: a checkpoint with steps = 3 and no eps key
C7_Witness ==
    /\ op = "load"
    /\ ret.path = "old.pt"
    /\ "eps" \notin DOMAIN files["old.pt"]
    /\ agent.steps = 3
    /\ agent.eps = agent.cfg.eps_start
    /\ ~Consistent

\* C8: the regression target of every batch row is
\* reward + (1 - done) * gamma * max_a Q_target(next_state, a), with the
\* weights the target network has when optimize is called; for a row with
\* done = 1 it is the reward itself.
C8_Targets ==
    op' = "optimize" =>
        \A i \in DOMAIN ret'.target :
            LET r  == ret'.batch.reward[i]
                s2 == ret'.batch.next_state[i]
                d  == ret'.batch.done[i]
            IN  /\ d = One => ret'.target[i] = r
                /\ d = 0 =>
                      ret'.target[i] =
                        F32Add(r, F32Mul(F32(agent.cfg.gamma),
                                         MaxQ(agent.target, s2)))

C8_BellmanTarget == [][C8_Targets]_vars

\* a batch with a terminal and a non-terminal row, optimized while the
\* target network lags the online network
C8_Witness ==
    /\ op = "optimize"
    /\ DOMAIN ret.target = 1..2
    /\ ret.batch.done[1] = One
    /\ ret.target[1] = ret.batch.reward[1]
    /\ ret.batch.done[2] = 0
    /\ ret.target[2] # ret.batch.reward[2]
    /\ agent.opt = 2
    /\ ~ret.synced

\* C10: target weights equal online weights right after construction and
\* right after every synchronization; epsilon_greedy changes neither
\* network; an optimize call that does not synchronize leaves the target
\* weights (and steps and eps) unchanged.
C10_Constructed == op = "init" => agent.target = agent.q

C10_Frozen ==
    /\ op' = "epsilon_greedy" =>
          agent'.q = agent.q /\ agent'.target = agent.target
    /\ (op' = "optimize" /\ ret'.synced) => agent'.target = agent'.q
    /\ (op' = "optimize" /\ ~ret'.synced) =>
          /\ agent'.target = agent.target
          /\ agent'.steps = agent.steps
          /\ agent'.eps = agent.eps

C10_TargetFrozenBetweenSyncs == []C10_Constructed /\ [][C10_Frozen]_vars

\* after an optimize call that did not synchronize, the target lags
C10_Witness ==
    /\ op = "optimize"
    /\ ~ret.synced
    /\ agent.target # agent.q

(***************************************************************************)
(* Properties of save and load (SpecCkpt).                                 *)
(***************************************************************************)
\* the agent b constructed with the configuration cfg and the initial
\* weights w, after b.load(path)
FreshLoaded(cfg, w, path) == Loaded(AgentInit(cfg, w), files[path])

\* C11: after a.save(path), b.load(path) on a freshly constructed agent b
\* of the same configuration gives b the online weights, target weights,
\* optimizer state, steps and eps of a, hence the greedy action of a in
\* every state; save changes no field of a.
C11_Restored ==
    op = "save" =>
        \A w \in Weights :
            LET b == FreshLoaded(agent.cfg, w, "ckpt.pt")
            IN  /\ b.q = agent.q
                /\ b.target = agent.target
                /\ b.opt = agent.opt
                /\ b.steps = agent.steps
                /\ b.eps = agent.eps
                /\ \A s \in Obs : ArgMaxQ(b.q, s) = ArgMaxQ(agent.q, s)

C11_SaveFrame == op' = "save" => agent' = agent

C11_SaveLoadRoundTrip == []C11_Restored /\ [][C11_SaveFrame]_vars

\* saved: an agent that has stepped and learned, whose target lags, whose
\* eps has left eps_start and whose weights are not the initial ones
C11_Witness ==
    /\ op = "save"
    /\ agent.q # 0
    /\ agent.target # agent.q
    /\ agent.opt > 0
    /\ agent.steps > 0
    /\ agent.eps # agent.cfg.eps_start
    /\ FreshLoaded(agent.cfg, 0, "ckpt.pt").q = agent.q

\* C12: load of a checkpoint holding the online weights, the target
\* weights and the optimizer state but lacking the steps key, the eps key
\* or both succeeds: the three parts are restored, a missing steps gives
\* steps = 0, a missing eps gives eps = eps_start, and a key that is
\* present is restored to its stored value.
C12_PartialLoad ==
    op = "load" =>
        LET ckpt == files[ret.path]
        IN  /\ ret.kind = "loaded"
            /\ agent.q = ckpt.q
            /\ agent.target = ckpt.target
            /\ agent.opt = ckpt.opt
            /\ agent.steps = IF "steps" \in DOMAIN ckpt THEN ckpt.steps ELSE 0
            /\ agent.eps = IF "eps" \in DOMAIN ckpt THEN ckpt.eps
                           ELSE agent.cfg.eps_start

\* loaded: a checkpoint that has the steps key and lacks the eps key
C12_Witness ==
    /\ op = "load"
    /\ "steps" \in DOMAIN files[ret.path]
    /\ "eps" \notin DOMAIN files[ret.path]
    /\ agent.steps = 3
    /\ agent.eps = agent.cfg.eps_start
    /\ agent.q = 1
    /\ agent.target = 2

(***************************************************************************)
(* Properties of the training loop (SpecTrain).                            *)
(***************************************************************************)
\* C5: the training loop calls buf.sample(batch_size) only when
\* len(buf) >= batch_size and the loop step has reached warmup_steps, so
\* the call never raises; for every warmup_steps, batch_size, capacity,
\* optimize_every and episode length.
C5_NeverSamplesEarly ==
    (op = "learn" /\ ret.kind # "none") =>
        /\ ret.kind = "loss"
        /\ BufLen(buf) >= tr.args.batch_size
        /\ tr.step >= tr.args.warmup_steps
        /\ tr.pc # "crashed"

\* the first learning step of a run: at step = warmup_steps, with the
\* buffer holding exactly batch_size transitions
C5_Witness ==
    /\ op = "learn"
    /\ ret.kind = "loss"
    /\ tr.args.batch_size = 2
    /\ BufLen(buf) = 2
    /\ tr.step = tr.args.warmup_steps
    /\ tr.nopt = 1

\* C9 (as claimed): the target network is replaced by a copy of the online
\* network on every target_update_every-th call of optimize and on no other
\* call, for every warmup_steps and optimize_every of the training loop.
C9_SyncEveryNthOptimize ==
    (op = "learn" /\ ret.kind = "loss") =>
        (ret.synced <=> tr.nopt % agent.cfg.target_update_every = 0)

\* C14: at a checkpoint step best.pt is rewritten and best_ma updated if
\* and only if the candidate ma50 is strictly greater than the current
\* best_ma; when ma50 equals best_ma or is below it, best.pt is not
\* written and best_ma is unchanged.
C14_CkptStep ==
    (tr.pc = "ckpt" /\ op' = "ckpt" /\ tr.step % tr.args.ckpt_every = 0) =>
        LET ma50 == Ma50(tr.scores)
        IN  IF ma50 > tr.best_ma
            THEN /\ tr'.best_ma = ma50
                 /\ ret'.best
                 /\ "best.pt" \in DOMAIN files'
                 /\ files'["best.pt"].step = tr.step
                 /\ files'["best.pt"].ma50 = ma50
                 /\ files'["best.pt"].q = agent.q
            ELSE /\ tr'.best_ma = tr.best_ma
                 /\ ~ret'.best
                 /\ ("best.pt" \in DOMAIN files') = ("best.pt" \in DOMAIN files)
                 /\ "best.pt" \in DOMAIN files =>
                        files'["best.pt"] = files["best.pt"]

C14_BestOnlyWhenGreater == [][C14_CkptStep]_vars

\* a tie: the checkpoint step 4 found ma50 equal to best_ma and left the
\* best.pt of step 2 in place
C14_Witness ==
    /\ op = "ckpt"
    /\ ret.kind = "saved"
    /\ ~ret.best
    /\ tr.scores # <<>>
    /\ Ma50(tr.scores) = tr.best_ma
    /\ tr.step = 5
    /\ files["best.pt"].step = 2
    /\ StepPath(4) \in DOMAIN files

\* C17: while the loop step is below warmup_steps the action is drawn at
\* random without calling the agent, and agent.steps and agent.eps do not
\* change; from the first step with step >= warmup_steps on every action
\* comes from agent.epsilon_greedy (which advances steps and eps).
C17_Select ==
    (tr.pc = "select" /\ op' = "select" /\ tr.step <= tr.args.train_steps) =>
        IF tr.step < tr.args.warmup_steps
        THEN /\ ret'.kind = "random"
             /\ tr'.a \in Actions
             /\ agent' = agent
        ELSE /\ ret'.kind = "epsilon_greedy"
             /\ agent'.steps = agent.steps + 1
             /\ agent'.eps = Epsilon(agent.cfg, agent.steps + 1)
             /\ \/ tr'.a = ArgMaxQ(agent.q, tr.s)
                \/ agent'.eps > 0 /\ tr'.a \in Actions

C17_DuringWarmup == tr.step < tr.args.warmup_steps => agent' = agent

C17_WarmupActions == [][C17_Select /\ C17_DuringWarmup]_vars

\* the first epsilon_greedy call of a run with warmup_steps = 2, at the
\* loop step 2
C17_Witness ==
    /\ op = "select"
    /\ ret.kind = "epsilon_greedy"
    /\ tr.args.warmup_steps = 2
    /\ tr.step = 2
    /\ agent.steps = 1
    /\ agent.eps < agent.cfg.eps_start

\* C18: at loop step s the loop samples a batch and calls agent.optimize
\* exactly once if and only if s >= warmup_steps, len(buf) >= batch_size
\* (after the push of step s) and s mod optimize_every = 0; at every
\* other step, and everywhere else in the loop, neither is called.
C18_Learn ==
    (tr.pc = "learn" /\ op' = "learn") =>
        IF /\ tr.step >= tr.args.warmup_steps
           /\ BufLen(buf) >= tr.args.batch_size
           /\ tr.step % tr.args.optimize_every = 0
        THEN /\ ret'.kind = "loss"
             /\ DOMAIN ret'.batch.state = 1..tr.args.batch_size
             /\ tr'.nopt = tr.nopt + 1
             /\ agent'.opt = agent.opt + 1
        ELSE /\ ret'.kind = "none"
             /\ tr'.nopt = tr.nopt
             /\ agent' = agent

C18_Elsewhere ==
    op' # "learn" => (tr'.nopt = tr.nopt /\ agent'.opt = agent.opt)

C18_LearningTrigger == [][C18_Learn /\ C18_Elsewhere]_vars

\* the second learning step of a run with optimize_every = 2, at step 4
C18_Witness ==
    /\ op = "learn"
    /\ ret.kind = "loss"
    /\ tr.args.optimize_every = 2
    /\ tr.args.warmup_steps = 2
    /\ tr.args.batch_size = 2
    /\ tr.step = 4
    /\ tr.nopt = 2
    /\ agent.opt = 2

\* total_r of the frames of a decision: 0.0, then += r frame by frame
RECURSIVE SumRewards(_)
SumRewards(frames) ==
    IF frames = <<>> THEN 0
    ELSE FAdd(SumRewards(SubSeq(frames, 1, Len(frames) - 1)),
              frames[Len(frames)].reward)

\* the transitions pushed when the loop is at tr.pc of step tr.step
PushesDone ==
    IF tr.pc \in {"select", "frames", "push"} \/ (tr.pc = "closed" /\ op = "select")
    THEN tr.step - 1
    ELSE tr.step

\* C19: per decision the action is applied for at most max(1, frameskip)
\* consecutive env.step calls, stopping at the first that reports done,
\* and exactly one transition is pushed: the state observed before the
\* repeat, the held action, the sum of the rewards of the executed frames,
\* the observation and the done flag of the last executed frame; after n
\* decisions len(buf) = min(n, capacity).
C19_Push ==
    (tr.pc = "push" /\ op' = "push") =>
        LET n    == Len(tr.frames)
            reps == IF tr.args.frameskip > 1 THEN tr.args.frameskip ELSE 1
            slot == buf.pos
        IN  /\ n \in 1..reps
            /\ \A i \in 1..n - 1 : ~tr.frames[i].done
            /\ n < reps => tr.frames[n].done
            /\ buf'.state[slot] = tr.s
            /\ buf'.action[slot] = tr.a
            /\ buf'.reward[slot] = F32(SumRewards(tr.frames))
            /\ buf'.next_state[slot] = tr.frames[n].obs
            /\ buf'.done[slot] = (IF tr.frames[n].done THEN One ELSE 0)
            /\ \A j \in 0..buf.capacity - 1 :
                  j # slot => SlotRow(buf', j) = SlotRow(buf, j)

C19_Frames ==
    /\ op' # "push" => buf' = buf
    /\ op' = "env_step" => (tr'.s = tr.s /\ tr'.a = tr.a)
    /\ (op' = "select" /\ tr'.pc = "frames") =>
          (tr'.s = ObsOf(tr.env) /\ tr'.frames = <<>>)

C19_Count == BufLen(buf) = Min(PushesDone, buf.capacity)

C19_OneTransitionPerDecision ==
    []C19_Count /\ [][C19_Push /\ C19_Frames]_vars

\* pushed: a decision with frameskip = 2 that ended on its first frame,
\* into a buffer of capacity 1 that was already full
C19_Witness ==
    /\ op = "push"
    /\ tr.args.frameskip = 2
    /\ tr.k = 1
    /\ tr.done
    /\ tr.step = 3
    /\ buf.capacity = 1
    /\ buf.done[0] = One
    /\ buf.reward[0] = -One

\* C20: on every decision whose transition has done = true exactly one
\* score (the terminal score) is appended, the environment is reset, the
\* episode counter grows by one and the next decision starts from the
\* reset observation, not the terminal one; on a decision with
\* done = false none of these change; len(scores) = episode - 1.
C20_Book ==
    (tr.pc = "book" /\ op' = "book") =>
        IF tr.done
        THEN /\ tr'.scores = Append(tr.scores, tr.env.score)
             /\ tr'.episode = tr.episode + 1
             /\ tr'.env.t = 0 /\ ~tr'.env.done /\ tr'.env.score = 0
             /\ tr'.env.episode = tr.env.episode + 1
             /\ tr'.s = ObsOf(tr'.env)
             /\ tr'.s # tr.s2
        ELSE /\ tr'.scores = tr.scores
             /\ tr'.episode = tr.episode
             /\ tr'.env = tr.env
             /\ tr'.s = tr.s

C20_Elsewhere ==
    op' # "book" =>
        /\ tr'.scores = tr.scores
        /\ tr'.episode = tr.episode
        /\ tr'.env.episode = tr.env.episode

C20_Episodes ==
    /\ Len(tr.scores) = tr.episode - 1
    /\ tr.pc = "select" => (tr.s = ObsOf(tr.env) /\ ~tr.env.done)

C20_EpisodeBookkeeping == []C20_Episodes /\ [][C20_Book /\ C20_Elsewhere]_vars

\* booked: the second episode, which ended with the score 1
C20_Witness ==
    /\ op = "book"
    /\ tr.done
    /\ tr.scores = <<0, 1>>
    /\ tr.episode = 3
    /\ tr.s = 1
    /\ tr.s2 = 3
    /\ tr.env.episode = 3

(***************************************************************************)
(* Properties of resumed runs (SpecResume).                                *)
(***************************************************************************)
\* C13: resuming from an existing checkpoint with reset_eps = true gives
\* an agent with steps = 0 and eps = eps_start whose online weights,
\* target weights and optimizer state are those stored in the checkpoint;
\* with reset_eps = false, steps and eps are those stored.
C13_ResumeReset ==
    op = "resume" =>
        LET ckpt == files[ret.path]
        IN  /\ agent.q = ckpt.q
            /\ agent.target = ckpt.target
            /\ agent.opt = ckpt.opt
            /\ IF ret.reset_eps
               THEN agent.steps = 0 /\ agent.eps = agent.cfg.eps_start
               ELSE /\ "steps" \in DOMAIN ckpt => agent.steps = ckpt.steps
                    /\ "eps" \in DOMAIN ckpt => agent.eps = ckpt.eps

\* resumed with --reset-eps from the second checkpoint of the first run,
\* which holds trained weights, steps = 2 and an eps below eps_start
C13_Witness ==
    /\ op = "resume"
    /\ ret.reset_eps
    /\ ret.path = StepPath(2)
    /\ files[ret.path].steps = 2
    /\ files[ret.path].eps < agent.cfg.eps_start
    /\ files[ret.path].q # 0
    /\ agent.q = files[ret.path].q
    /\ agent.steps = 0
    /\ agent.eps = agent.cfg.eps_start

\* C15 (as claimed): best_ma is the highest ma50 observed so far across
\* the run, the part before a resume from a checkpoint the run wrote
\* included: it never decreases and is >= every ma50 a checkpoint step
\* evaluated, and the ma50 recorded in best.pt never decreases.
OwnPath(path) ==
    path = "best.pt" \/ \E n \in 1..MaxRunSteps : path = StepPath(n)

\* every run so far started afresh or from a checkpoint the run wrote
OwnRun == tr.run = 1 \/ OwnPath(tr.args.resume)

C15_RunningMax == OwnRun => tr.best_ma >= tr.seen_ma

C15_NeverDecreases ==
    (OwnRun /\ OwnRun') =>
        /\ tr'.best_ma >= tr.best_ma
        /\ ("best.pt" \in DOMAIN files /\ "best.pt" \in DOMAIN files') =>
              files'["best.pt"].ma50 >= files["best.pt"].ma50

C15_BestMaIsRunningMax == []C15_RunningMax /\ [][C15_NeverDecreases]_vars

\* C16 (as claimed): a run that starts without a usable best_ma (no
\* resume, or a checkpoint without the best_ma field) starts with best_ma
\* at negative infinity, below every float, so that the first checkpoint
\* step writes a best checkpoint whatever its ma50.
C16_Original ==
    (op \in {"init", "resume"} /\
     (op = "resume" => "best_ma" \notin DOMAIN files[ret.path])) =>
        \A x \in Floats(2 * BestMaInit, 0) : tr.best_ma < x

\* C16 (amended): such a run starts with best_ma at the finite value -1e9;
\* every ma50 is a mean of scores, which are >= 0, or 0.0, so the ma50 of
\* the first checkpoint step strictly exceeds it and that step writes
\* best.pt and sets best_ma to its ma50.
C16_Start ==
    (op \in {"init", "resume"} /\
     (op = "resume" => "best_ma" \notin DOMAIN files[ret.path])) =>
        tr.best_ma = -(One * Pow2(2 * MantBits))

C16_FirstCkpt ==
    (tr.pc = "ckpt" /\ op' = "ckpt" /\ tr.step = tr.args.ckpt_every /\
     tr.best_ma = -(One * Pow2(2 * MantBits))) =>
        /\ Ma50(tr.scores) >= 0
        /\ ret'.best
        /\ tr'.best_ma = Ma50(tr.scores)
        /\ files'["best.pt"].step = tr.step
        /\ files'["best.pt"].ma50 = Ma50(tr.scores)
        /\ files'["best.pt"].best_ma = Ma50(tr.scores)

C16_FirstCheckpointIsBest == []C16_Start /\ [][C16_FirstCkpt]_vars

\* the first checkpoint step of a run resumed from a checkpoint without
\* the best_ma field: ma50 = 0.0, and best.pt is written
C16_Witness ==
    /\ op = "ckpt"
    /\ tr.args.resume = "old.pt"
    /\ "old.pt" \in DOMAIN files
    /\ tr.run = 1
    /\ tr.step = 2
    /\ ret.best
    /\ tr.best_ma = 0
    /\ files["best.pt"].ma50 = 0

(***************************************************************************)
(* Properties of train() under the stopping arguments (SpecStop).          *)
(***************************************************************************)
\* the steps of the loop whose action selection has run
StepsBegun ==
    IF tr.pc = "select" \/ (tr.pc = "closed" /\ op = "select")
    THEN tr.step - 1
    ELSE tr.step

\* the episodes completed so far
EpisodesDone == Len(tr.scores)

\* C21: the loop ends only when an enabled criterion is met (train_steps
\* steps have run, the clock read at the stop check has reached
\* max_seconds, or max_episodes episodes have completed), it ends at the
\* first stop check or loop head at which one is met, and a criterion
\* configured as 0 (train_steps included) never ends the loop.
C21_EndsOnCriterion ==
    (tr.pc # "closed" /\ tr'.pc = "closed") =>
        \/ tr.args.train_steps > 0 /\ StepsBegun >= tr.args.train_steps
        \/ tr.args.max_seconds > 0 /\ op' = "stop" /\ ret'.kind = "polled"
                                   /\ ret'.timeup
        \/ tr.args.max_episodes > 0 /\ op' = "stop"
                                    /\ EpisodesDone >= tr.args.max_episodes

C21_EndsAtFirst ==
    /\ (op' = "stop" /\ tr.args.max_seconds > 0 /\ ret'.timeup)
          => tr'.pc = "closed"
    /\ (op' = "stop" /\ tr.args.max_episodes > 0
                     /\ EpisodesDone >= tr.args.max_episodes)
          => tr'.pc = "closed"
    /\ (op' = "select" /\ tr.args.train_steps > 0
                       /\ StepsBegun >= tr.args.train_steps)
          => tr'.pc = "closed"

C21_StopCriteria == [][C21_EndsOnCriterion /\ C21_EndsAtFirst]_vars

\* the checkpoint tags of step s as the loop computes them
LatestTags(t) ==
    [ma50 |-> Ma50(t.scores), best_ma |-> t.best_ma, step |-> t.step]

\* a stored checkpoint carries the tags x
Tagged(ckpt, x) ==
    /\ {"ma50", "best_ma", "step"} \subseteq DOMAIN ckpt
    /\ ckpt.ma50 = x.ma50 /\ ckpt.best_ma = x.best_ma /\ ckpt.step = x.step

\* the checkpoint phase of a step writes ckpt_step_s.pt with the tags of
\* the step exactly when ckpt_every divides s, best.pt only together with
\* it and for the same step, and no other phase writes a file
C22_CkptPhase ==
    /\ (op' = "ckpt" /\ tr.step % tr.args.ckpt_every = 0) =>
          /\ StepPath(tr.step) \in DOMAIN files'
          /\ Tagged(files'[StepPath(tr.step)], LatestTags(tr))
          /\ \A p \in DOMAIN files' \ {StepPath(tr.step), "best.pt"} :
                p \in DOMAIN files /\ files'[p] = files[p]
          /\ ("best.pt" \in DOMAIN files' /\
              ("best.pt" \notin DOMAIN files \/ files'["best.pt"] # files["best.pt"]))
                => files'["best.pt"].step = tr.step
    /\ (op' = "ckpt" /\ tr.step % tr.args.ckpt_every # 0) => files' = files
    /\ op' # "ckpt" => files' = files

\* every step before the current one whose number ckpt_every divides has
\* its checkpoint, and no other step-numbered file exists
C22_Written ==
    \A s \in 1..MaxStopSteps + 1 :
        StepPath(s) \in DOMAIN files <=>
            (s % tr.args.ckpt_every = 0 /\ s < tr.step)

\* C22 as stated: every step the loop has begun and whose number
\* ckpt_every divides has its checkpoint once the loop has ended.
C22_Original ==
    tr.pc = "closed" =>
        \A s \in 1..StepsBegun :
            s % tr.args.ckpt_every = 0 => StepPath(s) \in DOMAIN files

\* C22 (amended): for every step s with s mod ckpt_every = 0 that reaches
\* its checkpoint phase (the loop is not ended at s by the time or episode
\* stop check, which comes first), ckpt_step_s.pt is written, tagged with
\* step = s, the ma50 of the scores recorded by then and the best_ma of
\* that moment; a step ended by the stop check writes nothing; no
\* step-numbered checkpoint is written at any other step, and best.pt is
\* written only right after the step's own latest checkpoint.
C22_PeriodicCheckpoint == []C22_Written /\ [][C22_CkptPhase]_vars

\* the second step of a run with ckpt_every = 2 has written its checkpoint
\* with a score recorded, the first step none
C22_Witness ==
    /\ op = "ckpt"
    /\ ret.kind = "saved"
    /\ tr.args.ckpt_every = 2
    /\ tr.step = 3
    /\ Len(tr.scores) >= 1
    /\ StepPath(2) \in DOMAIN files
    /\ StepPath(1) \notin DOMAIN files
    /\ files[StepPath(2)].ma50 = Ma50(tr.scores)

\* C26: within a step the phases follow one another with no way out:
\* a step that selects an action runs its frame repeat, pushes its
\* transition, evaluates the learning trigger and does the episode
\* bookkeeping, and the loop ends only at the stop check after the
\* bookkeeping or at the loop head before an action is selected.
C26_Phases ==
    /\ (tr.pc = "select" /\ tr'.pc # "closed") =>
          (op' = "select" /\ tr'.pc = "frames")
    /\ tr.pc = "frames" => (op' = "env_step" /\ tr'.pc \in {"frames", "push"})
    /\ tr.pc = "push" =>
          (op' = "push" /\ tr'.pc = "learn" /\ BufLen(buf') >= 1)
    /\ tr.pc = "learn" => (op' = "learn" /\ tr'.pc = "book")
    /\ tr.pc = "book" => (op' = "book" /\ tr'.pc = "stop")
    /\ tr.pc \in {"frames", "push", "learn", "book", "stop"} =>
          tr'.step = tr.step
    /\ op' = "stop" => tr.pc = "stop"

C26_Ends ==
    (tr.pc # "closed" /\ tr'.pc = "closed") =>
        \/ tr.pc = "stop" /\ op' = "stop"
        \/ tr.pc = "select" /\ op' = "select" /\ tr.step > tr.args.train_steps

C26_StopsAtStepBoundary == [][C26_Phases /\ C26_Ends]_vars

\* the time limit ended the loop at the stop check of the second step,
\* after its transition was pushed and an optimize call made
C26_Witness ==
    /\ tr.pc = "closed"
    /\ op = "stop"
    /\ ret.kind = "polled"
    /\ ret.timeup
    /\ tr.step = 2
    /\ tr.nopt = 2
    /\ BufLen(buf) = 1

(***************************************************************************)
(* Properties of the checkpoint directory across runs (SpecResume).        *)
(***************************************************************************)
\* the step-numbered paths a run can write
StepPaths == {StepPath(n) : n \in 1..MaxRunSteps}

\* C23: a step-numbered checkpoint is written at most once and never
\* changes afterwards, within a run and across the runs that resume into
\* the same directory.
C23_WriteOnce ==
    /\ \A p \in StepPaths \cap DOMAIN files :
          p \in DOMAIN files' /\ files'[p] = files[p]
    /\ (op' = "ckpt" /\ ret'.kind = "saved") =>
          StepPath(tr.step) \notin DOMAIN files

C23_StepCheckpointsImmutable == [][C23_WriteOnce]_vars

(***************************************************************************)
(* Properties of train() under failures (SpecFail).                        *)
(***************************************************************************)
\* C25: when the write of best.pt fails at a checkpoint step, the loop
\* goes on with the next step, and the step's latest checkpoint, written
\* just before, is still there.
C25_Continues ==
    (op' = "ckpt" /\ ret'.kind = "OSError" /\ ret'.path = "best.pt") =>
        /\ tr'.pc = "select"
        /\ tr'.step = tr.step + 1
        /\ StepPath(tr.step) \in DOMAIN files'
        /\ Tagged(files'[StepPath(tr.step)], LatestTags(tr))

C25_BestWriteIsBestEffort == [][C25_Continues]_vars

\* C27: a SystemExit raised by env.step leaves train() at once: the call
\* changes neither the buffer, the agent nor the checkpoint directory, and
\* nothing runs after it: no retry of the step, no env.step, push,
\* optimize or checkpoint write.
C27_Raised ==
    ret.kind = "SystemExit" => (op = "env_step" /\ tr.pc = "crashed")

C27_Propagates ==
    /\ (op' = "env_step" /\ ret'.kind = "SystemExit") =>
          /\ tr.pc = "frames"
          /\ buf' = buf /\ agent' = agent /\ files' = files
          /\ tr'.env = tr.env /\ tr'.frames = tr.frames
          /\ tr'.step = tr.step /\ tr'.nopt = tr.nopt
    /\ tr.pc # "crashed"

C27_FatalSignalEndsLoop == []C27_Raised /\ [][C27_Propagates]_vars

\* the window was closed during the second frame of the second step, after
\* a push, an optimize call and a checkpoint of the first step
C27_Witness ==
    /\ ret.kind = "SystemExit"
    /\ tr.pc = "crashed"
    /\ tr.step = 2
    /\ tr.k = 1
    /\ tr.nopt = 1
    /\ BufLen(buf) = 1
    /\ StepPath(1) \in DOMAIN files

(***************************************************************************)
(* Properties of the checkpoint file seen by the server (SpecView).        *)
(***************************************************************************)
\* C24: a reload by the server never finds best.pt partially written:
\* each of its reads of the file succeeds and returns a complete
\* checkpoint.
C24_AtomicBestWrite ==
    /\ op = "viewer_load" => ret.kind = "reloaded"
    /\ op = "viewer_meta" => ret.kind = "meta"

(***************************************************************************)
(* Properties of the buffer's generator (SpecRng).                         *)
(***************************************************************************)
\* C28: two buffers built with the same seed and given the same push and
\* sample calls return the same indices from every sample call, whatever
\* numbers of draws the exploration generator and the environment's
\* generator have made in either run; those draws leave the buffer and its
\* generator as they were.
C28_SameIdxs ==
    /\ buf[1] = buf[2]
    /\ op = "sample" => ret.idxs[1] = ret.idxs[2]

C28_OtherDraws == op' \in {"explore", "env_draw"} => buf' = buf

C28_SamplingReproducible == []C28_SameIdxs /\ [][C28_OtherDraws]_vars

\* a batch of two drawn from a full buffer of capacity 2 in two runs
\* whose exploration and environment generators are in different states
C28_Witness ==
    /\ op = "sample"
    /\ ret.batch_size = 2
    /\ ret.idxs[1][1] # ret.idxs[1][2]
    /\ buf[1].full
    /\ buf[1].capacity = 2
    /\ tr.np[1] # tr.np[2]
    /\ tr.random[1] # tr.random[2]
    /\ buf[1].rng # SeededRng(0) /\ buf[1].rng # SeededRng(1)

(***************************************************************************)
(* Properties of the step counter of the agent (SpecCkpt).                 *)
(***************************************************************************)
\* C29: every epsilon_greedy call adds exactly one to agent.steps and
\* sets eps to the schedule's value for the new count before it chooses:
\* a draw that is not below the new eps gives the argmax of the online
\* network, whatever the eps before the call; optimize and save leave
\* steps and eps as they are, so steps never decreases under these calls.
C29_Select ==
    op' = "epsilon_greedy" =>
        /\ agent'.steps = agent.steps + 1
        /\ agent'.eps = Epsilon(agent.cfg, agent.steps + 1)
        /\ ret'.action \in Actions
        /\ ret'.draw >= agent'.eps
              => ret'.action = ArgMaxQ(agent.q, ret'.state)
        /\ agent'.q = agent.q /\ agent'.target = agent.target
        /\ agent'.opt = agent.opt

C29_Others ==
    op' \in {"optimize", "save"} =>
        (agent'.steps = agent.steps /\ agent'.eps = agent.eps)

C29_StepsCount == [][C29_Select /\ C29_Others]_vars

\* after an optimize call and a save, a call whose draw lies between the
\* new eps and the eps before the call takes the greedy branch
C29_Witness ==
    /\ op = "epsilon_greedy"
    /\ agent.steps = 2
    /\ agent.opt = 1
    /\ "ckpt.pt" \in DOMAIN files
    /\ ret.draw >= agent.eps
    /\ ret.draw < Epsilon(agent.cfg, 1)
    /\ ret.action = ArgMaxQ(agent.q, ret.state)

(***************************************************************************)
(* Properties of the order inside optimize (SpecOpt).                      *)
(***************************************************************************)
\* C30: in one optimize call the loss is computed from the networks as
\* they are before the call, the gradient is cleared, set by the backward
\* pass and clipped to grad_clip before opt.step() reads it (so the step
\* applies the clipped gradient of this call's loss alone, of norm at most
\* grad_clip), and the synchronisation, when due, comes last: it copies
\* the weights opt.step() produced, so target = online on return from a
\* synchronising call, and the target is untouched otherwise.
C30_Call ==
    op' = "optimize" =>
        /\ ret'.target = BatchTargets(agent, ret'.batch)
        /\ agent'.applied = <<Clipped(ret'.grad, agent.cfg.grad_clip)>>
        /\ Abs(agent'.applied[1]) <= agent.cfg.grad_clip
        /\ agent'.grad = agent'.applied
        /\ agent'.opt = agent.opt + 1
        /\ ret'.synced = SyncDue(agent)
        /\ ret'.synced => agent'.target = agent'.q
        /\ ~ret'.synced => agent'.target = agent.target

C30_OptimizeOrder == [][C30_Call]_vars

\* the second optimize call of an agent: a gradient above grad_clip was
\* cut to it, the weights moved and the target was synchronised to them
C30_Witness ==
    /\ op = "optimize"
    /\ agent.opt = 2
    /\ ret.synced
    /\ ret.grad = -(2 * One)
    /\ agent.applied = <<-agent.cfg.grad_clip>>
    /\ agent.target = agent.q
    /\ agent.q = 2

(***************************************************************************)
(* Properties of the warmup of train() (SpecTrain).                        *)
(***************************************************************************)
\* C31: the first action the agent selects, and the first learning step,
\* come after exactly warmup_steps decisions taken with a random warmup
\* action.
C31_WarmupLength ==
    /\ (op = "select" /\ ret.kind = "epsilon_greedy" /\ agent.steps = 1) =>
          tr.step - 1 = tr.args.warmup_steps
    /\ (op = "learn" /\ ret.kind = "loss" /\ tr.nopt = 1) =>
          tr.step - 1 >= tr.args.warmup_steps

(***************************************************************************)
(* Termination of train() (SpecStopFair).                                  *)
(***************************************************************************)
\* max(1, args.frameskip)
FrameRepeat(args) == IF args.frameskip > 1 THEN args.frameskip ELSE 1

\* the counts of decisions and of env.step calls
C32_Bounds ==
    /\ StepsBegun <= tr.args.train_steps
    /\ tr.k <= FrameRepeat(tr.args)
    /\ Len(tr.frames) <= FrameRepeat(tr.args)
    /\ tr.env.total_steps <= StepsBegun * FrameRepeat(tr.args)

\* C32: the loop takes at most train_steps decisions, a decision makes at
\* most max(1, frameskip) env.step calls (one when frameskip <= 0), and
\* whatever max_seconds, max_episodes and the done flags are, the loop
\* ends and env.close() is reached.
C32_Terminates == []C32_Bounds /\ <>(tr.pc = "closed")

\* the step budget ran out with both other criteria disabled, after an
\* episode ended inside a frame repeat of two
C32_Witness ==
    /\ tr.pc = "closed"
    /\ op = "select"
    /\ tr.args.max_seconds = 0
    /\ tr.args.max_episodes = 0
    /\ tr.args.frameskip = 2
    /\ StepsBegun = MaxStopSteps
    /\ Len(tr.scores) = 1
    /\ tr.env.total_steps = 2 * MaxStopSteps - 1

(***************************************************************************)
(* The target synchronisation within train() (SpecTrain).                  *)
(***************************************************************************)
\* C33: while learning steps occur the target network is synchronised
\* again and again: agent.steps advances by optimize_every between two
\* optimize calls, so its residues modulo target_update_every repeat after
\* at most target_update_every calls, and a run of target_update_every
\* optimize calls without a synchronisation is one that never has any.
C33_TargetEventuallySynced ==
    tr.stale < agent.cfg.target_update_every

(***************************************************************************)
(* The metrics stored in the checkpoints of train() (SpecTrain).           *)
(***************************************************************************)
C34_BestCoversMa50 ==
    \A p \in DOMAIN files : files[p].best_ma >= files[p].ma50

C34_WritesRunningBest ==
    (op' = "ckpt" /\ ret'.kind = "saved") =>
        \A p \in {StepPath(tr.step), "best.pt"} :
            (p \in DOMAIN files' /\ files'[p].step = tr.step) =>
                files'[p].best_ma = tr'.best_ma

\* C34: every checkpoint file the loop writes, step-numbered or best.pt,
\* stores a best_ma that is at least its stored ma50 and that is the
\* running best once the ma50 of its step has been taken into account.
C34_ConsistentMetrics == []C34_BestCoversMa50 /\ [][C34_WritesRunningBest]_vars

(***************************************************************************)
(* The start of train() with --resume (SpecResume).                        *)
(***************************************************************************)
\* a resume path that names no file: nothing is loaded, reset or recovered
C35_MissingFile ==
    (op = "init" /\ tr.args.resume # "") =>
        /\ tr.args.resume \notin DOMAIN files
        /\ agent = AgentInit(ResumeCfg, 0)
        /\ agent.steps = 0
        /\ agent.eps = ResumeCfg.eps_start
        /\ tr.best_ma = BestMaInit
        /\ tr.pc = "select"

\* a metadata read that fails: the checkpoint is loaded, and the schedule
\* reset if asked for, but best_ma is not recovered
C35_UnreadableMeta ==
    (op = "resume" /\ ~ret.meta) =>
        /\ agent = ResumedAgent(tr.args, ResumeCfg, 0, files)
        /\ tr.best_ma = BestMaInit
        /\ tr.pc = "select"

\* C35: train started with a resume path at which there is no file raises
\* no error and starts from a fresh agent (steps = 0, eps = eps_start)
\* with best_ma at its default; a failure of the re-read of the
\* checkpoint's metadata is swallowed and leaves best_ma at its default.
C35_ResumeFailuresAreSilent == C35_MissingFile /\ C35_UnreadableMeta

\* the second run resumes from a checkpoint that stores a best_ma of its
\* own, and the read of the metadata fails
C35_Witness ==
    /\ op = "resume"
    /\ ~ret.meta
    /\ tr.run = 2
    /\ "best_ma" \in DOMAIN files[ret.path]
    /\ files[ret.path].best_ma # BestMaInit
    /\ agent.steps > 0

(***************************************************************************)
(* env.step and finished episodes in train() (SpecTrain).                  *)
(***************************************************************************)
\* the frame loop runs on an episode that is not done, and the pass that
\* reports done is the last one of its decision
C36_StepsLiveEpisode ==
    /\ tr.pc = "frames" => ~tr.env.done
    /\ \A i \in 1..Len(tr.frames) : tr.frames[i].done => i = Len(tr.frames)
    /\ (tr.pc = "frames" /\ tr.k > 0) => ~tr.done

\* what env.step returns for an episode that is done
C36_StepOfDoneEpisode ==
    tr.env.done =>
        \A a \in Actions, collide \in BOOLEAN :
            EnvStep(tr.env, a, collide) =
                [env |-> tr.env, obs |-> ObsOf(tr.env), reward |-> 0,
                 done |-> TRUE, info |-> [k \in {} |-> 0]]

\* between the frame that reports done and the next env.step there is the
\* env.reset() of the bookkeeping
C36_ResetBeforeNextStep ==
    (tr.env.done /\ op' = "env_step") => FALSE

\* C36: the loop never calls env.step on an episode that has reported
\* done: the frame loop stops at that frame and env.reset() runs before
\* the next env.step; env.step on a finished episode would return
\* (observation, 0.0, True, {}) and change nothing.
C36_NoStepAfterDone ==
    /\ [](C36_StepsLiveEpisode /\ C36_StepOfDoneEpisode)
    /\ [][C36_ResetBeforeNextStep]_vars

\* the first frame of the second episode, after the first episode ended on
\* the first of two repeated frames
C36_Witness ==
    /\ op = "env_step"
    /\ tr.args.frameskip = 2
    /\ tr.step = 2
    /\ tr.k = 1
    /\ tr.env.episode = 2
    /\ tr.env.total_steps = 2
    /\ tr.scores = <<0>>

(***************************************************************************)
(* Properties of the viewer server (SpecServer).                           *)
(***************************************************************************)
C37_DistinctColors ==
    /\ \A u, v \in Joined(tr.users) :
          u # v => tr.users[u].color # tr.users[v].color
    /\ Cardinality(Joined(tr.users)) <= NumColors

C37_DeniedWhenFull ==
    (op' = "join_request" /\ Cardinality(Joined(tr.users)) = NumColors) =>
        /\ ret'.kind = "join_denied"
        /\ tr'.users = tr.users
        /\ tr'.user_queue = tr.user_queue

\* C37: whatever messages, frames and game overs came before, no two
\* users with joined set have the same colour, so at most
\* len(PLAYER_COLORS) users are joined at once; a join_request that
\* arrives when that many are joined is answered join_denied and changes
\* neither users nor user_queue.
C37_JoinedHaveDistinctColors ==
    []C37_DistinctColors /\ [][C37_DeniedWhenFull]_vars

\* a join_request was denied, frames having been played and a pair being
\* owned
C37_Witness ==
    /\ op = "join_request"
    /\ ret.kind = "join_denied"
    /\ Cardinality(Joined(tr.users)) = NumColors
    /\ tr.nframes > 0
    /\ \E u \in Joined(tr.users) : tr.users[u].assigned # None

\* the pipe pairs of the environment
Pairs == tr.env.pipes.pairs

\* the pairs user u owns
Owned(u) == {i \in DOMAIN Pairs : Pairs[i].up_owner = u \/ Pairs[i].low_owner = u}

\* C38: a pair's ownerUserId is u exactly if users[u].assigned is the
\* pair's pair_id; a user owns at most one pair and a pair has one owner at
\* most, the same on both pipes; a user id is in user_queue at most once
\* and never while it owns a pair; a user with joined unset neither owns a
\* pair nor is queued.
C38_OwnershipConsistent ==
    /\ \A i \in DOMAIN Pairs :
          /\ Pairs[i].up_owner = Pairs[i].low_owner
          /\ Pairs[i].up_owner # None => Pairs[i].up_owner \in DOMAIN tr.users
          /\ \A u \in DOMAIN tr.users :
                (Pairs[i].up_owner = u) <=>
                    (tr.users[u].assigned # None /\
                     tr.users[u].assigned = Pairs[i].pair_id)
    /\ \A u \in DOMAIN tr.users : Cardinality(Owned(u)) <= 1
    /\ \A i, j \in DOMAIN tr.user_queue :
          i # j => tr.user_queue[i] # tr.user_queue[j]
    /\ \A u \in Range(tr.user_queue) : Owned(u) = {}
    /\ \A u \in DOMAIN tr.users :
          ~tr.users[u].joined => (Owned(u) = {} /\ u \notin Range(tr.user_queue))

\* a frame in which a user's pair left the screen and the user was given
\* the next one, another user having left
C38_Witness ==
    /\ op = "frame"
    /\ \E u \in ret.released : tr.users[u].assigned # None /\ Owned(u) # {}
    /\ \E v \in DOMAIN tr.users : ~tr.users[v].joined

\* C39: once a game over has been processed (env.reset(), then
\* _on_game_over) every user has joined unset, no assigned pair and
\* last_dy = 0, user_queue is empty and no pair has an owner, the users
\* whose join_request was answered join_ok during the pause before the
\* reset included.
C39_GameOverClearsPlayers ==
    op = "game_over" =>
        /\ \A u \in DOMAIN tr.users :
              /\ ~tr.users[u].joined
              /\ tr.users[u].assigned = None
              /\ tr.users[u].last_dy = 0
        /\ tr.pause_joined \subseteq DOMAIN tr.users
        /\ tr.user_queue = <<>>
        /\ \A i \in DOMAIN Pairs :
              Pairs[i].up_owner = None /\ Pairs[i].low_owner = None

\* a game over processed after a user joined during the pause, another
\* user having joined before
C39_Witness ==
    /\ op = "game_over"
    /\ tr.pause_joined # {}
    /\ \E u \in DOMAIN tr.users : u \notin tr.pause_joined

\* C40: every env.step of ai_game_loop, those after an env.reset()
\* included, ticks a Pipes object that carries the overrides init_agent
\* installed (the wide-view spawn rule and the removal that requeues
\* owners).
C40_OverridesInEffect ==
    op = "frame" => ret.wide

====
